---- MODULE Spec2Model ----
(***************************************************************************)
(* Verification model of the vb-ideation multi-agent scoring pipeline:     *)
(* the checkpoint store (services/checkpoint.py), the 17-step pipeline     *)
(* (services/mas_scorer.py and services/agents/), the progress reporter    *)
(* (services/agents/progress.py) and the SSE streaming transport           *)
(* (routers/scoring.py).                                                   *)
(*                                                                         *)
(* Strings that the code joins with "_" (agent name, pdf stem, sector,     *)
(* timestamp) are modelled as sequences of "_"-free tokens, so a file name *)
(* is the concatenation of token sequences and a glob pattern              *)
(* "<prefix>_*.json" matches exactly the names that extend the prefix.     *)
(***************************************************************************)
EXTENDS Integers, Sequences, FiniteSets, TLC

VARIABLES
    files,      \* checkpoint directory: set of files [name, mtime, content]
    now,        \* wall clock, in ticks
    log,        \* history: the save_checkpoint calls performed so far
    writers,    \* the file each worker has open for writing (NoneVal: none)
    runNo,      \* number of score_pdf calls started so far
    pc,         \* position of the worker inside score_pdf
    step,       \* the pipeline step the worker is at (0: none)
    params,     \* arguments of the current score_pdf call
    call,       \* a direct call of a scoring function: name, argument, value
    reporter,   \* ProgressReporter: keys of step_start_times, step_durations
    events,     \* the events handed to the progress callback, in order
    llmCalls,   \* steps of the current run that invoked the LLM
    had,        \* steps of the current run that found a checkpoint record
    out,        \* value returned by each step executor in the current run
    selected,   \* parsed_ideas and the selected idea of the current run
    evaluations,\* the list built by Agent3Dimensions.evaluate_all
    result,     \* the dict returned by score_pdf (NoneVal: none)
    error,      \* str(e) of the exception raised by score_pdf (NoneVal: none)
    faults,     \* number of LLM failures and malformed responses so far
    ioErrors,   \* steps of the current run whose save_checkpoint raised
    queue,      \* progress_queue of event_generator
    holder,     \* result_holder of event_generator
    sse,        \* the messages yielded by event_generator, in order
    cpc,        \* position of event_generator
    tempDir     \* the temp_dir of score_pdf_stream that holds the upload

storeVars == <<files, now, log, writers>>

runVars == <<runNo, pc, step, params, call, reporter, events, llmCalls, had,
             out, selected, evaluations, result, error, faults, ioErrors>>

streamVars == <<queue, holder, sse, cpc, tempDir>>

vars == <<storeVars, runVars, streamVars>>

----------------------------------------------------------------------------
(* Bounds *)

\* clock ticks per second of the "%Y-%m-%d_%H-%M-%S" file-name timestamp
TicksPerSec == 2

\* last clock value reached
MaxClock == 5

\* number of save_checkpoint calls explored by the store specification
MaxSaves == 3

\* number of score_pdf calls explored by the pipeline specification
MaxRuns == 2

\* number of LLM failures and malformed LLM responses in one behaviour
MaxFaults == 1

----------------------------------------------------------------------------
(* Values *)

\* Python's None
NoneVal == [none |-> TRUE]

\* the worker threads that share the checkpoint directory
Workers == {"w1", "w2"}

\* Number of steps of the pipeline
TOTAL_STEPS == 17

Steps == 1..TOTAL_STEPS

\* Checkpoint name of each pipeline step, as "_"-separated tokens:
\* agent1, agent2, agent3_1..agent3_11, agent4_1..agent4_3, agent5
AgentName(k) ==
    IF k = 1 THEN <<"agent1">>
    ELSE IF k = 2 THEN <<"agent2">>
    ELSE IF k <= 13 THEN <<"agent3", ToString(k - 2)>>
    ELSE IF k <= 16 THEN <<"agent4", ToString(k - 13)>>
    ELSE <<"agent5">>

\* all_agents of count_checkpoints / cleanup_old_checkpoints
AllAgents == {AgentName(k) : k \in Steps}

\* Run contexts handed to CheckpointManager.__init__
CtxA == [pdf_path |-> [dir |-> "up1", stem |-> <<"report">>],
         sector |-> <<"health">>,
         provider |-> "openai", model |-> "gpt",
         use_checkpoints |-> TRUE]

\* same document and sector as CtxA under another provider and model
CtxA2 == [pdf_path |-> [dir |-> "up1", stem |-> <<"report">>],
          sector |-> <<"health">>,
          provider |-> "anthropic", model |-> "claude",
          use_checkpoints |-> TRUE]

\* same document as CtxA, sector "health_tech"
CtxB == [pdf_path |-> [dir |-> "up1", stem |-> <<"report">>],
         sector |-> <<"health", "tech">>,
         provider |-> "openai", model |-> "gpt",
         use_checkpoints |-> TRUE]

\* another document, sector of CtxA
CtxD == [pdf_path |-> [dir |-> "up2", stem |-> <<"memo">>],
         sector |-> <<"health">>,
         provider |-> "openai", model |-> "gpt",
         use_checkpoints |-> TRUE]

Contexts == {CtxA, CtxA2, CtxB, CtxD}

\* The checkpoint names the store specification saves under
StoreAgents == {AgentName(1), AgentName(3)}

----------------------------------------------------------------------------
(* CheckpointManager *)

\* self.pdf_name = Path(pdf_path).stem
PdfName(ctx) == ctx.pdf_path.stem

\* datetime.now().strftime("%Y-%m-%d_%H-%M-%S"): date token and time token,
\* resolution one second
Timestamp(t) == <<"D", ToString(t \div TicksPerSec)>>

\* f"{agent_name}_{self.pdf_name}_{self.sector}_{timestamp}.json"
GetCheckpointPath(agent, ctx, t) ==
    agent \o PdfName(ctx) \o ctx.sector \o Timestamp(t)

\* f"{agent_name}_{self.pdf_name}_{self.sector}_*.json" matched by glob
GlobMatches(prefix, name) ==
    /\ Len(name) > Len(prefix)
    /\ SubSeq(name, 1, Len(prefix)) = prefix

MatchingFiles(fs, agent, ctx) ==
    {f \in fs : GlobMatches(agent \o PdfName(ctx) \o ctx.sector, f.name)}

\* a find_latest_checkpoint that picks the oldest matching file
FindLatestCheckpoint_Oldest(fs, agent, ctx) ==
    LET m == MatchingFiles(fs, agent, ctx)
    IN  {f \in m : \A g \in m : g.mtime >= f.mtime}

\* max(matching_files, key=lambda p: p.stat().st_mtime): the files with the
\* greatest mtime; glob order decides among equal mtimes
FindLatestCheckpoint(fs, agent, ctx) ==
    LET m == MatchingFiles(fs, agent, ctx)
    IN  {f \in m : \A g \in m : g.mtime <= f.mtime}

\* the content of a file between open(checkpoint_path, 'w') and the end of
\* json.dump, or after two overlapping dumps: not a JSON document
Incomplete == [incomplete |-> TRUE]

\* json.load(f)["data"]; any exception makes load_checkpoint return None
ReadData(f) == IF f.content = Incomplete THEN NoneVal ELSE f.content.data

\* load_checkpoint: the set of values the call can return
LoadCheckpoint(fs, agent, ctx) ==
    IF ~ctx.use_checkpoints THEN {NoneVal}
    ELSE LET latest == FindLatestCheckpoint(fs, agent, ctx)
         IN  IF latest = {} THEN {NoneVal}
             ELSE {ReadData(f) : f \in latest}

\* save_checkpoint: open(checkpoint_path, 'w') creates or truncates the file
SavedFiles(fs, agent, ctx, data, t) ==
    LET path == GetCheckpointPath(agent, ctx, t)
        file == [name |-> path,
                 mtime |-> t,
                 content |-> [timestamp |-> t,
                              provider |-> ctx.provider,
                              model |-> ctx.model,
                              pdf_path |-> ctx.pdf_path,
                              sector |-> ctx.sector,
                              data |-> data]]
    IN  {f \in fs : f.name # path} \cup {file}

\* count_checkpoints()[agent]
CountCheckpoints(fs, agent, ctx) == Cardinality(MatchingFiles(fs, agent, ctx))

----------------------------------------------------------------------------
(* Checkpoint store specification: saves under several run contexts *)

\* no score_pdf call is in progress
IdleRun ==
    /\ runNo = 0
    /\ pc = "idle"
    /\ step = 0
    /\ reporter = [start_times |-> {}, durations |-> {}]
    /\ events = <<>>
    /\ llmCalls = {}
    /\ had = {}
    /\ out = [k \in Steps |-> NoneVal]
    /\ selected = NoneVal
    /\ evaluations = <<>>
    /\ result = NoneVal
    /\ error = NoneVal
    /\ faults = 0
    /\ ioErrors = {}
    /\ call = NoneVal

\* no event stream is open
NoStream ==
    /\ queue = <<>>
    /\ holder = [result |-> NoneVal, error |-> NoneVal]
    /\ sse = <<>>
    /\ cpc = "off"
    /\ tempDir = "none"

InitStore ==
    /\ files = {}
    /\ now = 0
    /\ log = <<>>
    /\ writers = [w \in Workers |-> NoneVal]
    /\ params = NoneVal
    /\ IdleRun
    /\ NoStream

\* the clock advances
Tick ==
    /\ now < MaxClock
    /\ now' = now + 1
    /\ UNCHANGED <<files, log, writers, runVars, streamVars>>

\* CheckpointManager(ctx).save_checkpoint(agent, data); the payload of the
\* n-th save is [v |-> n]
SaveCheckpoint(agent, ctx) ==
    /\ Len(log) < MaxSaves
    /\ LET data == [v |-> Len(log) + 1]
       IN  /\ files' = SavedFiles(files, agent, ctx, data, now)
           /\ log' = Append(log, [agent |-> agent, ctx |-> ctx,
                                  data |-> data, at |-> now])
    /\ UNCHANGED <<now, writers, runVars, streamVars>>

NextStore ==
    \/ Tick
    \/ \E agent \in StoreAgents, ctx \in Contexts : SaveCheckpoint(agent, ctx)

SpecStore == InitStore /\ [][NextStore]_vars

----------------------------------------------------------------------------
(* Properties of the checkpoint store *)

\* the run context under which the payload d was saved
SavedUnder(d) == log[d.v].ctx

SameDocAndSector(a, b) == a.pdf_path = b.pdf_path /\ a.sector = b.sector

SameModel(a, b) == a.provider = b.provider /\ a.model = b.model

\* C2: for two run contexts with the same document and sector but another
\* provider or model, load_latest under one never returns a payload that was
\* saved under the other.
C2_ChangedModelNeverReused ==
    \A agent \in StoreAgents, ctx \in Contexts :
        \A d \in LoadCheckpoint(files, agent, ctx) :
            (d # NoneVal /\ SameDocAndSector(SavedUnder(d), ctx))
                => SameModel(SavedUnder(d), ctx)

\* C3: load_latest under run context B is not affected by saves under a run
\* context A that differs from B in document or sector: whatever it returns
\* was saved under B's own document and sector.
C3_RunContextIsolation ==
    \A agent \in StoreAgents, ctx \in Contexts :
        \A d \in LoadCheckpoint(files, agent, ctx) :
            d # NoneVal => SameDocAndSector(SavedUnder(d), ctx)

\* every save performed so far was for the key (agent, ctx)
OnlySavesFor(agent, ctx) ==
    /\ log # <<>>
    /\ \A i \in 1..Len(log) : log[i].agent = agent /\ log[i].ctx = ctx

C5_AppendOnly == Cardinality(files) = Len(log)

----------------------------------------------------------------------------
(* Pipeline: MASScorer.score_pdf and the five agents *)

\* a Python number (so that a score is comparable with None)
Num(n) == [num |-> n]

\* the dimension evaluated at pipeline step k (steps 3..13 <-> ids 1..11)
DimensionOf(k) == k - 2

\* run contexts of the score_pdf calls
RunContexts == {CtxA}

\* an exception e with str(e) = m
Exc(m) == [msg |-> m]

\* str(e) of the exceptions an LLM invocation raises
ErrorMessages == {"", "LLM request failed"}

\* the score (x/10) an LLM writes in a well-formed evaluation
LLMScore == 8

\* a step executor that is handed a checkpoint manager in every run
HasManager_Always == TRUE

\* checkpoint_manager: None in score_pdf unless use_checkpoints, None in
\* score_text
HasManager == params.entry = "score_pdf" /\ params.ctx.use_checkpoints

\* response.content of the LLM call of step k in the current run
Response(k) == [by |-> runNo, step |-> k]

\* a checkpoint hit of step k: load_checkpoint returned the truthy payload d
Hit(k, d) ==
    /\ HasManager
    /\ d \in LoadCheckpoint(files, AgentName(k), params.ctx)
    /\ d # NoneVal

\* a step executor that does not return on a checkpoint hit
Miss_Always(k) == TRUE

\* no checkpoint manager, or load_checkpoint returned None
Miss(k) ==
    \/ ~HasManager
    \/ NoneVal \in LoadCheckpoint(files, AgentName(k), params.ctx)

\* save_checkpoint(agent k, data) when a checkpoint manager exists
Saved(k, data) ==
    IF HasManager THEN SavedFiles(files, AgentName(k), params.ctx, data, now)
    ELSE files

\* a report that falls back to its default status, RUNNING
Report_AlwaysRunning(k, status) ==
    /\ events' = IF params.callback = "none" THEN events
                 ELSE Append(events, [step |-> k, status |-> "running"])
    /\ queue' = IF params.callback = "queue"
                THEN Append(queue, [type |-> "progress",
                                    event |-> [step |-> k, status |-> "running"]])
                ELSE queue

\* ProgressReporter.report: the callback receives the event
Report(k, status) ==
    /\ events' = IF params.callback = "none" THEN events
                 ELSE Append(events, [step |-> k, status |-> status])
    /\ queue' = IF params.callback = "queue"
                THEN Append(queue, [type |-> "progress",
                                    event |-> [step |-> k, status |-> status]])
                ELSE queue

\* ProgressReporter.complete_step
CompleteStep(k) ==
    /\ reporter' = [reporter EXCEPT
                      !.durations = IF k \in reporter.start_times
                                    THEN @ \cup {k} ELSE @]
    /\ Report(k, "completed")

\* bookkeeping of a step executor: its return value, the store after it,
\* whether it invoked the LLM, whether that invocation failed or was malformed
Executed(k, value, fs, called, fault) ==
    /\ fault => faults < params.max_faults
    /\ out' = [out EXCEPT ![k] = value]
    /\ files' = fs
    /\ llmCalls' = IF called THEN llmCalls \cup {k} ELSE llmCalls
    /\ faults' = IF fault THEN faults + 1 ELSE faults
    /\ had' = IF HasManager
                 /\ CountCheckpoints(files, AgentName(k), params.ctx) > 0
              THEN had \cup {k} ELSE had
    /\ ioErrors' = ioErrors

\* the OSError of open(checkpoint_path, 'w') on unavailable storage
StorageError == Exc("storage unavailable")

\* the LLM of step k answered, and save_checkpoint raised StorageError: no
\* file is written; value is what the step executor returns nevertheless
SaveRaised(k, value) ==
    /\ HasManager /\ params.disk_errors
    /\ faults < params.max_faults
    /\ out' = [out EXCEPT ![k] = value]
    /\ llmCalls' = llmCalls \cup {k}
    /\ faults' = faults + 1
    /\ ioErrors' = ioErrors \cup {k}
    /\ UNCHANGED <<files, had>>

\* an orchestrator that leaves out the summary sub-agent
Advance_SkipSummary(k) ==
    /\ pc' = "start"
    /\ step' = IF k = 13 THEN 15 ELSE k + 1

\* the step after k starts next
Advance(k) ==
    /\ pc' = "start"
    /\ step' = k + 1

\* score_pdf or score_text is called with the arguments p: ProgressReporter
\* and CheckpointManager are created
BeginRunAs(p) ==
    /\ pc = "idle"
    /\ runNo < MaxRuns
    /\ runNo' = runNo + 1
    /\ pc' = "start"
    /\ step' = 1
    /\ reporter' = [start_times |-> {}, durations |-> {}]
    /\ events' = <<>>
    /\ llmCalls' = {}
    /\ had' = {}
    /\ out' = [k \in Steps |-> NoneVal]
    /\ selected' = NoneVal
    /\ evaluations' = <<>>
    /\ result' = NoneVal
    /\ error' = NoneVal
    /\ ioErrors' = {}
    /\ params' = p
    /\ UNCHANGED <<call, faults, storeVars>>

\* score_pdf is called with the arguments of the behaviour
BeginRun == BeginRunAs(params)

\* a direct call of score_pdf
StartRun ==
    /\ cpc = "off"
    /\ BeginRun
    /\ UNCHANGED streamVars

\* the next second begins between two score_pdf calls (LLM latency inside a
\* run is not modelled: a run saves every checkpoint name at most once, so
\* only the time between runs decides whether two saves of a name fall into
\* the same second)
Wait ==
    /\ pc = "idle" /\ runNo > 0
    /\ now < TicksPerSec
    /\ now' = TicksPerSec
    /\ UNCHANGED <<files, log, writers, runVars, streamVars>>

\* ProgressReporter.start_step for the next step
StartStep ==
    /\ pc = "start"
    /\ reporter' = [reporter EXCEPT !.start_times = @ \cup {step}]
    /\ Report(step, "running")
    /\ pc' = "exec"
    /\ UNCHANGED <<storeVars, runNo, step, params, call, llmCalls, had, out,
                   selected, evaluations, result, error, faults, ioErrors,
                   holder, sse, cpc, tempDir>>

\* an extraction that swallows the LLM exception and goes on
Extraction_Absorbs ==
    /\ pc = "exec" /\ step = 1
    /\ Miss(1)
    /\ Executed(1, NoneVal, files, TRUE, TRUE)
    /\ CompleteStep(1) /\ Advance(1)
    /\ UNCHANGED <<now, log, writers, runNo, params, call, selected, evaluations,
                   result, error, holder, sse, cpc, tempDir>>

\* Agent1Extraction.extract, then progress.complete_extraction
Extraction ==
    /\ pc = "exec" /\ step = 1
    /\ params.entry = "score_pdf"
    /\ \/ \E d \in LoadCheckpoint(files, AgentName(1), params.ctx) :
            /\ Hit(1, d)
            /\ Executed(1, d, files, FALSE, FALSE)
            /\ CompleteStep(1) /\ Advance(1)
            /\ UNCHANGED error
       \/ /\ Miss(1)
          /\ LET value == [raw_output |-> Response(1), num_chunks |-> 1]
             IN  Executed(1, value, Saved(1, value), TRUE, FALSE)
          /\ CompleteStep(1) /\ Advance(1)
          /\ UNCHANGED error
       \/ \E m \in ErrorMessages :
            /\ Miss(1)
            /\ Executed(1, NoneVal, files, TRUE, TRUE)
            /\ pc' = "raised" /\ error' = Exc(m)
            /\ UNCHANGED <<step, reporter, events, queue>>
       \/ /\ Miss(1)
          /\ SaveRaised(1, NoneVal)
          /\ pc' = "raised" /\ error' = StorageError
          /\ UNCHANGED <<step, reporter, events, queue>>
    /\ UNCHANGED <<now, log, writers, runNo, params, call, selected, evaluations, result,
                   holder, sse, cpc, tempDir>>

\* Agent2Ideas.parse_ideas: one entry per "### BUSINESS IDEA #" section
ParseIdeas(raw) == [i \in 1..raw.ideas |-> [idea |-> i, of |-> raw.by]]

\* the exception of a list subscript that is out of range
IndexError == Exc("list index out of range")

\* list[i] of Python: i counts from the end when negative, IndexError when
\* i is outside -len(list) .. len(list) - 1
Subscript(list, i) ==
    IF 0 <= i /\ i < Len(list) THEN list[i + 1]
    ELSE IF -Len(list) <= i /\ i < 0 THEN list[Len(list) + i + 1]
    ELSE IndexError

\* parsed_ideas[min(idea_index, len(parsed_ideas) - 1)]
SelectIdea(parsed, idea_index) ==
    Subscript(parsed, IF idea_index < Len(parsed) - 1 THEN idea_index
                      ELSE Len(parsed) - 1)

\* the ValueError score_pdf raises when parse_ideas returns an empty list
NoIdeasError == Exc("No business ideas were generated")

\* an orchestrator that goes on to the evaluation whatever was parsed
AfterIdeas_NoCheck(value) ==
    /\ selected' = [parsed |-> ParseIdeas(value.raw_output), idea |-> NoneVal]
    /\ Advance(2)
    /\ UNCHANGED error

\* what follows complete_idea_generation: parse the ideas, select one
AfterIdeas(value) ==
    LET parsed == ParseIdeas(value.raw_output)
    IN  IF parsed = <<>>
        THEN /\ pc' = "raised"
             /\ error' = NoIdeasError
             /\ UNCHANGED <<step, selected>>
        ELSE IF SelectIdea(parsed, params.idea_index) = IndexError
        THEN /\ pc' = "raised"
             /\ error' = IndexError
             /\ UNCHANGED <<step, selected>>
        ELSE /\ selected' = [parsed |-> parsed,
                             idea |-> SelectIdea(parsed, params.idea_index)]
             /\ Advance(2)
             /\ UNCHANGED error

\* an idea generation that saves its checkpoint only when ideas parse
IdeaGeneration_SaveAfterParse ==
    /\ pc = "exec" /\ step = 2
    /\ \/ \E d \in LoadCheckpoint(files, AgentName(2), params.ctx) :
            /\ Hit(2, d)
            /\ Executed(2, d, files, FALSE, FALSE)
            /\ CompleteStep(2) /\ AfterIdeas(d)
       \/ \E n \in {0, params.num_ideas} :
            /\ Miss(2)
            /\ LET value == [raw_output |-> [by |-> runNo, ideas |-> n],
                             num_ideas_requested |-> params.num_ideas]
               IN  /\ Executed(2, value,
                               IF n = 0 THEN files ELSE Saved(2, value),
                               TRUE, n = 0)
                   /\ CompleteStep(2) /\ AfterIdeas(value)
    /\ UNCHANGED <<now, log, writers, runNo, params, call, evaluations, result,
                   holder, sse, cpc, tempDir>>

\* Agent2Ideas.generate, progress.complete_idea_generation, idea selection
IdeaGeneration ==
    /\ pc = "exec" /\ step = 2
    /\ \/ \E d \in LoadCheckpoint(files, AgentName(2), params.ctx) :
            /\ Hit(2, d)
            /\ Executed(2, d, files, FALSE, FALSE)
            /\ CompleteStep(2) /\ AfterIdeas(d)
       \/ \E n \in {0, params.num_ideas} :
            /\ Miss(2)
            /\ LET value == [raw_output |-> [by |-> runNo, ideas |-> n],
                             num_ideas_requested |-> params.num_ideas]
               IN  /\ Executed(2, value, Saved(2, value), TRUE, n = 0)
                   /\ CompleteStep(2) /\ AfterIdeas(value)
       \/ \E m \in ErrorMessages :
            /\ Miss(2)
            /\ Executed(2, NoneVal, files, TRUE, TRUE)
            /\ pc' = "raised" /\ error' = Exc(m)
            /\ UNCHANGED <<step, selected, reporter, events, queue>>
       \/ /\ Miss(2)
          /\ SaveRaised(2, NoneVal)
          /\ pc' = "raised" /\ error' = StorageError
          /\ UNCHANGED <<step, selected, reporter, events, queue>>
    /\ UNCHANGED <<now, log, writers, runNo, params, call, evaluations, result,
                   holder, sse, cpc, tempDir>>

Max(a, b) == IF a > b THEN a ELSE b

Min(a, b) == IF a < b THEN a ELSE b

\* the pattern "Score:\s*(\d+(?:\.\d+)?)/10" matches the response: it has a
\* score line, and the number on it is written without a sign
ScoreMatch(response) ==
    response.score # NoneVal /\ response.score.num >= 0

\* Agent3Dimensions._parse_score: min(10, max(0, score)) of the matched
\* number, None when the pattern does not match
ParseScore(response) ==
    IF ScoreMatch(response)
    THEN Num(Min(10, Max(0, response.score.num)))
    ELSE NoneVal

\* evaluate_all: "if evaluation: evaluations.append(evaluation)"
AppendEvaluation(evals, k, evaluation) ==
    IF evaluation # NoneVal THEN Append(evals, evaluation) ELSE evals

\* one iteration of Agent3Dimensions.evaluate_all: progress start was
\* reported; checkpoint lookup, evaluate_dimension, progress complete
EvaluateDimension ==
    /\ pc = "exec" /\ step \in 3..13
    /\ \/ \E d \in LoadCheckpoint(files, AgentName(step), params.ctx) :
            /\ Hit(step, d)
            /\ Executed(step, d, files, FALSE, FALSE)
            /\ evaluations' = Append(evaluations, d)
       \/ \E sc \in {Num(LLMScore), NoneVal} :
            /\ Miss(step)
            /\ LET response == [by |-> runNo, step |-> step, score |-> sc]
                   value == [dimension_id |-> DimensionOf(step),
                             score |-> ParseScore(response),
                             raw_output |-> response]
               IN  /\ Executed(step, value, Saved(step, value), TRUE,
                               sc = NoneVal)
                   /\ evaluations' = AppendEvaluation(evaluations, step, value)
       \/ /\ Miss(step)
          /\ Executed(step, NoneVal, files, TRUE, TRUE)
          /\ evaluations' = AppendEvaluation(evaluations, step, NoneVal)
       \/ /\ Miss(step)
          /\ SaveRaised(step, NoneVal)
          /\ evaluations' = AppendEvaluation(evaluations, step, NoneVal)
    /\ CompleteStep(step) /\ Advance(step)
    /\ UNCHANGED <<now, log, writers, runNo, params, call, selected, result, error,
                   holder, sse, cpc, tempDir>>

\* a summary sub-agent that checkpoints its fallback text when the LLM
\* call raised
SynthesisSummary_SavesFallback ==
    /\ pc = "exec" /\ step = 14
    /\ \/ \E d \in LoadCheckpoint(files, AgentName(14), params.ctx) :
            /\ Hit(14, d)
            /\ Executed(14, d.summary, files, FALSE, FALSE)
       \/ /\ Miss(14)
          /\ LET summary == [text |-> "llm", by |-> runNo]
             IN  Executed(14, summary, Saved(14, [summary |-> summary]),
                          TRUE, FALSE)
       \/ /\ Miss(14)
          /\ LET summary == [text |-> "Summary generation failed",
                             by |-> runNo]
             IN  Executed(14, summary, Saved(14, [summary |-> summary]),
                          TRUE, TRUE)
    /\ CompleteStep(14) /\ Advance(14)
    /\ UNCHANGED <<now, log, writers, runNo, params, call, selected, evaluations, result,
                   error, holder, sse, cpc, tempDir>>

\* Agent4Synthesis.generate_summary, then complete_synthesis_summary
SynthesisSummary ==
    /\ pc = "exec" /\ step = 14
    /\ \/ \E d \in LoadCheckpoint(files, AgentName(14), params.ctx) :
            /\ Hit(14, d)
            /\ Executed(14, d.summary, files, FALSE, FALSE)
       \/ /\ Miss(14)
          /\ LET summary == [text |-> "llm", by |-> runNo]
             IN  Executed(14, summary, Saved(14, [summary |-> summary]),
                          TRUE, FALSE)
       \/ /\ Miss(14)
          /\ Executed(14, [text |-> "Summary generation failed", by |-> runNo],
                      files, TRUE, TRUE)
       \/ /\ Miss(14)
          /\ SaveRaised(14, [text |-> "Summary generation failed",
                             by |-> runNo])
    /\ CompleteStep(14) /\ Advance(14)
    /\ UNCHANGED <<now, log, writers, runNo, params, call, selected, evaluations, result,
                   error, holder, sse, cpc, tempDir>>

\* number of bullet lines _parse_bullet_points finds in an LLM response
BulletCounts == {1, 3, 5}

\* a list of bullets: where it comes from and how many entries it has
Bullets(src, n) == [src |-> src, n |-> n, by |-> runNo]

\* list[:3]
FirstThree(list) == [list EXCEPT !.n = Min(@, 3)]

\* a strengths / concerns sub-agent that lets the LLM exception escape
IdentifyBullets_Raises(k, field) ==
    /\ pc = "exec" /\ step = k
    /\ Miss(k)
    /\ Executed(k, NoneVal, files, TRUE, TRUE)
    /\ pc' = "raised" /\ error' = Exc("LLM request failed")
    /\ UNCHANGED <<now, log, writers, runNo, step, params, call, reporter, events,
                   selected, evaluations, result, streamVars>>

\* identify_strengths / identify_concerns for step k (15 or 16) and the
\* checkpoint field name; both end with the progress complete call
IdentifyBullets(k, field) ==
    /\ pc = "exec" /\ step = k
    /\ \/ \E d \in LoadCheckpoint(files, AgentName(k), params.ctx) :
            /\ Hit(k, d)
            /\ Executed(k, d[field], files, FALSE, FALSE)
       \/ \E nb \in BulletCounts :
            /\ Miss(k)
            /\ LET list == IF nb < 3
                           THEN Bullets("fallback", Min(3, Len(evaluations)))
                           ELSE Bullets("llm", nb)
               IN  Executed(k, FirstThree(list),
                            Saved(k, [f \in {field} |-> list]), TRUE, nb # 3)
       \/ /\ Miss(k)
          /\ Executed(k, Bullets("error", Min(3, Len(evaluations))),
                      files, TRUE, TRUE)
       \/ /\ Miss(k)
          /\ SaveRaised(k, Bullets("error", Min(3, Len(evaluations))))
    /\ CompleteStep(k) /\ Advance(k)
    /\ UNCHANGED <<now, log, writers, runNo, params, call, selected, evaluations, result,
                   error, holder, sse, cpc, tempDir>>

\* Agent4Synthesis.identify_strengths, then complete_synthesis_strengths
SynthesisStrengths == IdentifyBullets(15, "strengths")

\* Agent4Synthesis.identify_concerns, then complete_synthesis_concerns
SynthesisConcerns == IdentifyBullets(16, "concerns")

\* a null score counted as the middle of the scale
ScoreOr0_Middle(sc) == IF sc = NoneVal THEN 5 ELSE sc.num

\* ds["score"] or 0
ScoreOr0(sc) == IF sc = NoneVal THEN 0 ELSE sc.num

\* weights that give the first dimension 0.16
DIMENSION_WEIGHTS_Heavy == <<16, 10, 10, 8, 9, 10, 8, 11, 9, 7, 6>>

\* DIMENSION_WEIGHTS by dimension id, in hundredths
DIMENSION_WEIGHTS == <<12, 10, 10, 8, 9, 10, 8, 11, 9, 7, 6>>

\* weighted_sum of calculate_overall_score, in hundredths of a point:
\* the sum of (score or 0) * weight over the evaluations
RECURSIVE WeightedSum(_)
WeightedSum(evals) ==
    IF evals = <<>> THEN 0
    ELSE ScoreOr0(Head(evals).score) * DIMENSION_WEIGHTS[Head(evals).dimension_id]
         + WeightedSum(Tail(evals))

\* a rounding that cuts off after the first decimal
Round1_Floor(h) == {h \div 10}

\* round(weighted_sum, 1), in tenths of a point: the nearest tenth; when the
\* exact sum lies halfway between two tenths, the binary floating-point
\* error of the accumulated sum decides which of the two is returned
Round1(h) ==
    IF h % 10 < 5 THEN {h \div 10}
    ELSE IF h % 10 > 5 THEN {h \div 10 + 1}
    ELSE {h \div 10, h \div 10 + 1}

\* Agent5Consolidation.calculate_overall_score: the values it can return,
\* in tenths of a point
CalculateOverallScore(evals) == Round1(WeightedSum(evals))

\* a get_recommendation with the thresholds applied in ascending order
GetRecommendation_Ascending(h) ==
    IF h >= 400 THEN "REQUIRES_REFINEMENT"
    ELSE IF h >= 600 THEN "CONDITIONAL_PROCEED"
    ELSE IF h >= 800 THEN "STRONG_PROCEED"
    ELSE "REJECT"

\* Agent5Consolidation.get_recommendation for an overall score given in
\* hundredths of a point
GetRecommendation(h) ==
    IF h >= 800 THEN "STRONG_PROCEED"
    ELSE IF h >= 600 THEN "CONDITIONAL_PROCEED"
    ELSE IF h >= 400 THEN "REQUIRES_REFINEMENT"
    ELSE "REJECT"

\* MASScorer._format_recommendation
FormatRecommendation(recommendation) ==
    CASE recommendation = "STRONG_PROCEED" -> "Strong Pursue"
      [] recommendation = "CONDITIONAL_PROCEED" -> "Consider with Conditions"
      [] recommendation = "REQUIRES_REFINEMENT" -> "Further Research Needed"
      [] recommendation = "REJECT" -> "Pass"
      [] OTHER -> recommendation

\* the final_report dict of Agent5Consolidation.consolidate for the
\* overall score (in tenths) that calculate_overall_score returned
FinalReport(overall, rationale) ==
    [business_idea_summary |-> out[14],
     overall_score |-> overall,
     recommendation |-> GetRecommendation(10 * overall),
     dimensional_scores |->
        [i \in 1..Len(evaluations) |->
            [dimension |-> evaluations[i].dimension_id,
             score |-> evaluations[i].score]],
     key_strengths |-> out[15],
     key_concerns |-> out[16],
     recommendation_rationale |-> rationale]

\* the result dict score_pdf builds from final_report
BuildResult(final_report) ==
    [idea_summary |-> final_report.business_idea_summary,
     dimension_scores |->
        [i \in 1..Len(final_report.dimensional_scores) |->
            [dimension |-> final_report.dimensional_scores[i].dimension,
             score |-> ScoreOr0(final_report.dimensional_scores[i].score)]],
     overall_score |-> final_report.overall_score,
     recommendation |-> FormatRecommendation(final_report.recommendation),
     recommendation_rationale |-> final_report.recommendation_rationale,
     key_strengths |-> final_report.key_strengths,
     key_concerns |-> final_report.key_concerns,
     generated_ideas_count |-> Len(selected.parsed),
     evaluated_idea_index |-> params.idea_index,
     extracted_text |-> out[1].raw_output]

\* Agent5Consolidation.consolidate (generate_rationale absorbs an LLM
\* failure), complete_consolidation, and the return of score_pdf
Consolidation ==
    /\ pc = "exec" /\ step = 17
    /\ \/ \E d \in LoadCheckpoint(files, AgentName(17), params.ctx) :
            /\ Hit(17, d)
            /\ Executed(17, d, files, FALSE, FALSE)
            /\ result' = BuildResult(d)
       \/ \E src \in {"llm", "fallback"},
               overall \in CalculateOverallScore(evaluations) :
            /\ Miss(17)
            /\ LET report == FinalReport(overall, [src |-> src, by |-> runNo])
               IN  /\ Executed(17, report, Saved(17, report), TRUE,
                               src = "fallback")
                   /\ result' = BuildResult(report)
    /\ CompleteStep(17)
    /\ pc' = "returned"
    /\ UNCHANGED <<now, log, writers, runNo, step, params, call, selected, evaluations,
                   error, holder, sse, cpc, tempDir>>

\* Agent5Consolidation.consolidate when save_checkpoint("agent5") raises:
\* the except clause re-raises and score_pdf is left
ConsolidationSaveRaised ==
    /\ pc = "exec" /\ step = 17
    /\ Miss(17)
    /\ SaveRaised(17, NoneVal)
    /\ pc' = "raised" /\ error' = StorageError
    /\ UNCHANGED <<now, log, writers, runNo, step, params, call, reporter, events,
                   selected, evaluations, result, streamVars>>

\* a direct score_pdf call has returned or raised; the caller has the outcome
EndRun ==
    /\ cpc = "off"
    /\ pc \in {"returned", "raised"}
    /\ pc' = "idle"
    /\ UNCHANGED <<storeVars, runNo, step, params, call, reporter, events, llmCalls,
                   had, out, selected, evaluations, result, error, faults, ioErrors,
                   streamVars>>

\* the arguments of the score_pdf calls of one behaviour
RunParams ==
    {[ctx |-> ctx, callback |-> cb, num_ideas |-> 3, idea_index |-> 0,
      entry |-> "score_pdf", max_faults |-> MaxFaults, disk_errors |-> FALSE] :
        ctx \in RunContexts, cb \in {"none", "list"}}

\* the process that runs score_pdf is stopped while a step executes (the
\* partial run that a later run resumes)
Interrupt ==
    /\ cpc = "off"
    /\ pc = "exec"
    /\ faults < params.max_faults
    /\ faults' = faults + 1
    /\ pc' = "raised"
    /\ error' = Exc("interrupted")
    /\ UNCHANGED <<storeVars, runNo, step, params, call, reporter, events, llmCalls,
                   had, out, selected, evaluations, result, ioErrors,
                   streamVars>>

InitRun ==
    /\ files = {}
    /\ now = 0
    /\ log = <<>>
    /\ writers = [w \in Workers |-> NoneVal]
    /\ params \in RunParams
    /\ IdleRun
    /\ NoStream

NextRun ==
    \/ Wait
    \/ StartRun
    \/ StartStep
    \/ Extraction
    \/ IdeaGeneration
    \/ EvaluateDimension
    \/ SynthesisSummary
    \/ SynthesisStrengths
    \/ SynthesisConcerns
    \/ Consolidation
    \/ Interrupt
    \/ EndRun

SpecRun == InitRun /\ [][NextRun]_vars

\* score_pdf calls without a progress callback, with one more LLM failure
\* or malformed response than in RunParams, on storage that can fail
ResumeParams ==
    {[ctx |-> ctx, callback |-> "none", num_ideas |-> 3, idea_index |-> 0,
      entry |-> "score_pdf", max_faults |-> MaxFaults + 1, disk_errors |-> TRUE] :
        ctx \in RunContexts}

InitResume ==
    /\ files = {}
    /\ now = 0
    /\ log = <<>>
    /\ writers = [w \in Workers |-> NoneVal]
    /\ params \in ResumeParams
    /\ IdleRun
    /\ NoStream

NextResume ==
    \/ NextRun
    \/ ConsolidationSaveRaised

SpecResume == InitResume /\ [][NextResume]_vars

----------------------------------------------------------------------------
(* Direct calls of the scoring functions *)

\* the number on the score line of an LLM response; None: no score line
RawScores == {NoneVal} \cup {Num(n) : n \in -3..12}

\* the scores _parse_score returns
ParsedScores == {NoneVal} \cup {Num(n) : n \in 0..10}

\* lists of one evaluation per dimension: the first j dimensions scored a,
\* the others b
EvaluationLists ==
    {[i \in 1..11 |-> [dimension_id |-> i,
                       score |-> IF i <= j THEN a ELSE b]] :
        a \in ParsedScores, b \in ParsedScores, j \in 0..11}

\* overall scores handed to get_recommendation, in hundredths of a point
OverallScores == 0..1000

\* _parse_score(result) for an LLM response
CallParseScore ==
    /\ call = NoneVal
    /\ \E raw \in RawScores :
          call' = [fn |-> "_parse_score", arg |-> raw,
                   value |-> ParseScore([score |-> raw])]
    /\ UNCHANGED <<storeVars, runNo, pc, step, params, reporter, events,
                   llmCalls, had, out, selected, evaluations, result, error,
                   faults, ioErrors, streamVars>>

\* calculate_overall_score(evaluations)
CallCalculateOverallScore ==
    /\ call = NoneVal
    /\ \E evals \in EvaluationLists :
          \E v \in CalculateOverallScore(evals) :
             call' = [fn |-> "calculate_overall_score", arg |-> evals,
                      value |-> v]
    /\ UNCHANGED <<storeVars, runNo, pc, step, params, reporter, events,
                   llmCalls, had, out, selected, evaluations, result, error,
                   faults, ioErrors, streamVars>>

\* get_recommendation(overall_score)
CallGetRecommendation ==
    /\ call = NoneVal
    /\ \E h \in OverallScores :
          call' = [fn |-> "get_recommendation", arg |-> h,
                   value |-> GetRecommendation(h)]
    /\ UNCHANGED <<storeVars, runNo, pc, step, params, reporter, events,
                   llmCalls, had, out, selected, evaluations, result, error,
                   faults, ioErrors, streamVars>>

NextUnit ==
    \/ CallParseScore
    \/ CallCalculateOverallScore
    \/ CallGetRecommendation

SpecUnit == InitStore /\ [][NextUnit]_vars

----------------------------------------------------------------------------
(* Properties of the scoring functions *)

\* the call recorded is a call of fn
Called(fn) == call # NoneVal /\ call.fn = fn

\* sum of score * weight over the evaluations that have a score, in
\* hundredths of a point
ExactSum(evals) ==
    LET idx == {i \in 1..Len(evals) : evals[i].score # NoneVal}
        RECURSIVE Sum(_)
        Sum(S) == IF S = {} THEN 0
                  ELSE LET i == CHOOSE x \in S : TRUE
                       IN  evals[i].score.num
                             * DIMENSION_WEIGHTS[evals[i].dimension_id]
                           + Sum(S \ {i})
    IN  Sum(idx)

\* C15: the overall score of 11 dimension evaluations is the sum of
\* score * weight rounded to one decimal (a tenth nearest to the sum, and
\* the only value possible unless the sum lies halfway between two tenths);
\* it lies in [0, 10] for scores in [0, 10], and eleven scores of 8.0 give
\* 8.0.
C15_WeightedScore ==
    Called("calculate_overall_score") =>
        LET sum == ExactSum(call.arg)
        IN  /\ 10 * call.value - sum \in -5..5
            /\ sum % 10 # 5 => CalculateOverallScore(call.arg) = {call.value}
            /\ call.value \in 0..100
            /\ (\A i \in 1..11 : call.arg[i].score = Num(8)) => call.value = 80

\* C15 witness: eleven scores of 8 gave 8.0
C15_Witness ==
    /\ Called("calculate_overall_score")
    /\ \A i \in 1..11 : call.arg[i].score = Num(8)
    /\ call.value = 80

\* the recommendation tiers, lowest first
Tiers == <<"REJECT", "REQUIRES_REFINEMENT", "CONDITIONAL_PROCEED",
           "STRONG_PROCEED">>

\* position of a tier in Tiers (0 for any other string)
TierRank(t) ==
    IF \E r \in 1..Len(Tiers) : Tiers[r] = t
    THEN CHOOSE r \in 1..Len(Tiers) : Tiers[r] = t
    ELSE 0

\* C16: the tier is determined by the overall score: STRONG_PROCEED from
\* 8.0, CONDITIONAL_PROCEED from 6.0, REQUIRES_REFINEMENT from 4.0, REJECT
\* below (8.0 -> STRONG_PROCEED, 7.99 and 6.0 -> CONDITIONAL_PROCEED,
\* 3.9 -> REJECT), and a higher overall score never gets a lower tier.
C16_RecommendationThresholds ==
    Called("get_recommendation") =>
        /\ TierRank(call.value)
              = 1 + Cardinality({t \in {400, 600, 800} : call.arg >= t})
        /\ call.arg = 800 => call.value = "STRONG_PROCEED"
        /\ call.arg \in {799, 600} => call.value = "CONDITIONAL_PROCEED"
        /\ call.arg = 390 => call.value = "REJECT"
        /\ \A h \in OverallScores :
              h >= call.arg =>
                 TierRank(GetRecommendation(h)) >= TierRank(call.value)

\* C16 witness: 7.99 is a CONDITIONAL_PROCEED
C16_Witness ==
    /\ Called("get_recommendation")
    /\ call.arg = 799
    /\ call.value = "CONDITIONAL_PROCEED"

\* C17: the score parsed from an LLM response is the number on the score
\* line clamped to [0, 10] (12 gives 10, -3 gives 0); a response without a
\* score line gives a null score; so every non-null score is in [0, 10].
C17_ScoreClamped ==
    Called("_parse_score") =>
        /\ call.arg = NoneVal => call.value = NoneVal
        /\ call.arg # NoneVal =>
              call.value = Num(IF call.arg.num > 10 THEN 10
                               ELSE IF call.arg.num < 0 THEN 0
                               ELSE call.arg.num)
        /\ call.value # NoneVal => call.value.num \in 0..10


\* the executor of step k has finished in the current run
StepRan(k) == k \in had \cup llmCalls

\* what the executor of step k returns for the cached payload d
Returned(k, d) ==
    IF k = 14 THEN d.summary
    ELSE IF k = 15 THEN d.strengths
    ELSE IF k = 16 THEN d.concerns
    ELSE d

\* the step executor of step k has been left in the current run
StepDone(k) == k < step \/ (k = step /\ pc = "returned")

\* the run whose LLM call produced the value that step k returned
ProducedBy(k) ==
    IF k <= 13 THEN out[k].raw_output.by
    ELSE IF k <= 16 THEN out[k].by
    ELSE out[k].recommendation_rationale.by

\* C1: with checkpointing enabled, a run issues no LLM call for a step whose
\* checkpoint record exists and returns exactly the cached payload, and it
\* invokes the LLM for exactly the steps that have no record, so a run after a
\* partial run resumes at the first step without a checkpoint.
C1_ResumeSkip ==
    (runNo > 0 /\ HasManager) =>
        \A k \in Steps :
            /\ StepDone(k) => StepRan(k)
            /\ k \in had =>
                  /\ k \notin llmCalls
                  /\ ProducedBy(k) < runNo
                  /\ \E d \in LoadCheckpoint(files, AgentName(k), params.ctx) :
                        d # NoneVal /\ out[k] = Returned(k, d)
            /\ (StepRan(k) /\ k \notin had) => k \in llmCalls

\* C1 witness: the second run, after a run that was stopped in dimension 7
\* (step 9), took the cached results of steps 1..8, invoked the LLM for
\* steps 9..17 and returned
C1_Witness ==
    /\ runNo = 2 /\ pc = "returned"
    /\ had = 1..8
    /\ llmCalls = 9..17
    /\ \A k \in 1..8 : ProducedBy(k) = 1

\* dimension steps whose evaluate_dimension call returned None (LLM raised)
FailedDimensions == {k \in 3..13 : k \in llmCalls /\ out[k] = NoneVal}

\* C6: if the LLM call of exactly one dimension raises, evaluate_all returns
\* 11 entries: 10 successful evaluations and one entry for the failed
\* dimension with a null score.
C6_FailedDimensionKept ==
    (step >= 14 /\ Cardinality(FailedDimensions) = 1) =>
        /\ Len(evaluations) = 11
        /\ \E i \in 1..Len(evaluations) :
              /\ evaluations[i].score = NoneVal
              /\ evaluations[i].dimension_id + 2 \in FailedDimensions

\* the callback received the event (k, status)
Emitted(k, status) ==
    \E i \in 1..Len(events) : events[i] = [step |-> k, status |-> status]

\* C7: a run ends either with a Final Report, returned only after every one
\* of the 17 steps has completed (and its 'completed' event was handed to the
\* callback, if there is one), or failed with no Final Report at all.
C7_AllOrNothing ==
    /\ pc = "returned" <=> (runNo > 0 /\ pc # "idle" /\ result # NoneVal)
    /\ pc = "raised" => (result = NoneVal /\ error # NoneVal)
    /\ result # NoneVal =>
          /\ error = NoneVal
          /\ \A k \in Steps :
                /\ k \in reporter.durations
                /\ params.callback # "none" => Emitted(k, "completed")

\* C7 witness: a run returned a report although one LLM call failed
C7_Witness ==
    /\ pc = "returned" /\ result # NoneVal
    /\ faults = 1 /\ FailedDimensions # {}
    /\ params.callback = "list"

\* C8: in the event sequence of a run, step numbers never decrease, each
\* step's 'running' event comes before its 'completed' event, and step k's
\* 'completed' comes before step k+1's 'running': the sequence is a prefix of
\* running(1), completed(1), running(2), completed(2), ..., completed(17);
\* a successful run has 'running' and 'completed' for every step 1..17.
C8_ProgressOrdering ==
    /\ \A i \in 1..Len(events) :
          /\ events[i].step = (i + 1) \div 2
          /\ events[i].status = IF i % 2 = 1 THEN "running" ELSE "completed"
    /\ (pc = "returned" /\ params.callback # "none") =>
          \A k \in Steps : Emitted(k, "running") /\ Emitted(k, "completed")

\* C8 witness: a resumed run, some steps served from checkpoints and some
\* not, returned after 34 events
C8_Witness ==
    /\ runNo = 2 /\ pc = "returned"
    /\ had # {} /\ llmCalls # {}
    /\ Len(events) = 2 * TOTAL_STEPS

----------------------------------------------------------------------------
(* Streaming transport: score_pdf_stream.event_generator *)

\* Python truthiness of result_holder["error"] (a str or None)
TruthyError(e) == e # NoneVal /\ e.str # ""

\* Python truthiness of result_holder["result"] (a non-empty dict or None)
TruthyResult(r) == r # NoneVal

\* a consumer that takes the newest queue entry
GetNowait_Newest(q) ==
    [item |-> q[Len(q)], rest |-> SubSeq(q, 1, Len(q) - 1)]

\* progress_queue.get_nowait(): the oldest entry leaves the queue
GetNowait(q) == [item |-> Head(q), rest |-> Tail(q)]

\* event_generator yields the init message
GenInit ==
    /\ cpc = "new"
    /\ sse' = Append(sse, [type |-> "init"])
    /\ cpc' = "ready"
    /\ UNCHANGED <<storeVars, runVars, queue, holder, tempDir>>

\* scoring_thread.start(): run_scoring calls score_pdf
ThreadStart ==
    /\ cpc = "ready"
    /\ BeginRun
    /\ cpc' = "poll"
    /\ UNCHANGED <<queue, holder, sse, tempDir>>

\* a worker whose "done" entry overtakes the progress entries still queued
PutDone_First(q) == <<[type |-> "done"]>> \o q

\* progress_queue.put(("done", None))
PutDone(q) == Append(q, [type |-> "done"])

\* a run_scoring that enqueues "done" only after score_pdf returned
WorkerFinally_OnSuccess ==
    /\ cpc # "off"
    /\ pc = "returned"
    /\ holder' = [result |-> result, error |-> NoneVal]
    /\ queue' = PutDone(queue)
    /\ pc' = "finished"
    /\ UNCHANGED <<storeVars, runNo, step, params, call, reporter, events, llmCalls,
                   had, out, selected, evaluations, result, error, faults, ioErrors,
                   sse, cpc, tempDir>>

\* run_scoring after score_pdf returned or raised: the result or str(e) is
\* stored, and the finally clause enqueues "done"
WorkerFinally ==
    /\ cpc # "off"
    /\ pc \in {"returned", "raised"}
    /\ holder' = IF pc = "returned"
                 THEN [result |-> result, error |-> NoneVal]
                 ELSE [result |-> NoneVal, error |-> [str |-> error.msg]]
    /\ queue' = PutDone(queue)
    /\ pc' = "finished"
    /\ UNCHANGED <<storeVars, runNo, step, params, call, reporter, events, llmCalls,
                   had, out, selected, evaluations, result, error, faults, ioErrors,
                   sse, cpc, tempDir>>

\* the messages event_generator yields when it takes "done" from the queue
TerminalMessages ==
    IF TruthyError(holder.error)
    THEN <<[type |-> "error", message |-> holder.error.str]>>
    ELSE IF TruthyResult(holder.result)
    THEN <<[type |-> "result", report |-> holder.result]>>
    ELSE <<>>

\* the finally clause of the consumer loop: shutil.rmtree(temp_dir)
Rmtree == tempDir' = "released"

\* one iteration of "while not progress_queue.empty()": a progress entry is
\* yielded as a progress message; "done" yields the terminal message and ends
\* the generator through the finally clause
ConsumerGet ==
    /\ cpc = "poll"
    /\ queue # <<>>
    /\ LET got == GetNowait(queue)
       IN  /\ queue' = got.rest
           /\ IF got.item.type = "progress"
              THEN /\ sse' = Append(sse, got.item)
                   /\ UNCHANGED <<cpc, tempDir>>
              ELSE /\ sse' = sse \o TerminalMessages
                   /\ cpc' = "closed"
                   /\ Rmtree
    /\ UNCHANGED <<storeVars, runVars, holder>>

\* "except Exception as e" of the consumer loop: building or serialising
\* final_result raised; an error message is yielded, then return and finally
ConsumerRaise ==
    /\ cpc = "poll"
    /\ queue # <<>>
    /\ GetNowait(queue).item.type = "done"
    /\ ~TruthyError(holder.error) /\ TruthyResult(holder.result)
    /\ queue' = GetNowait(queue).rest
    /\ sse' = Append(sse, [type |-> "error", message |-> "consumer"])
    /\ cpc' = "closed"
    /\ Rmtree
    /\ UNCHANGED <<storeVars, runVars, holder>>

\* the client disconnects: the generator is closed at the yield or await it
\* is suspended at. The init message is yielded before the try statement
\* whose finally clause removes temp_dir; the progress messages and the
\* sleep are inside it
Disconnect ==
    /\ cpc \in {"ready", "poll"}
    /\ cpc' = "disconnected"
    /\ IF cpc = "poll" THEN Rmtree ELSE UNCHANGED tempDir
    /\ UNCHANGED <<storeVars, runVars, queue, holder, sse>>

\* values of the idea_index form field (an int without constraint)
IdeaIndexes == {-4, 0, 5}

\* the arguments of the streamed score_pdf call
StreamParams ==
    {[ctx |-> ctx, callback |-> "queue", num_ideas |-> 3, idea_index |-> i,
      entry |-> "score_pdf", max_faults |-> MaxFaults, disk_errors |-> FALSE] :
        ctx \in RunContexts, i \in IdeaIndexes}

InitStream ==
    /\ files = {}
    /\ now = 0
    /\ log = <<>>
    /\ writers = [w \in Workers |-> NoneVal]
    /\ params \in StreamParams
    /\ IdleRun
    /\ queue = <<>>
    /\ holder = [result |-> NoneVal, error |-> NoneVal]
    /\ sse = <<>>
    /\ cpc = "new"
    /\ tempDir = "stored"

NextStream ==
    \/ GenInit
    \/ ThreadStart
    \/ StartStep
    \/ Extraction
    \/ IdeaGeneration
    \/ EvaluateDimension
    \/ SynthesisSummary
    \/ SynthesisStrengths
    \/ SynthesisConcerns
    \/ Consolidation
    \/ WorkerFinally
    \/ ConsumerGet
    \/ ConsumerRaise
    \/ Disconnect

SpecStream == InitStream /\ [][NextStream]_vars

----------------------------------------------------------------------------
(* Properties of the streaming transport *)

\* the progress events among a sequence of queue entries or messages
ProgressOf(seq) ==
    LET IsProgress(x) == x.type = "progress"
        p == SelectSeq(seq, IsProgress)
    IN  [i \in 1..Len(p) |-> p[i].event]

\* C9: for every interleaving of worker and consumer, the consumer re-emits
\* the progress events exactly once each and in the order the worker
\* enqueued them; "done" is the last entry the worker enqueues and the last
\* one the consumer handles, and no progress message follows the terminal
\* message.
C9_StreamingOrder ==
    /\ ProgressOf(sse) \o ProgressOf(queue) = events
    /\ \A i \in 1..Len(queue) :
          queue[i].type = "done" => (i = Len(queue) /\ pc = "finished")
    /\ cpc = "closed" =>
          (queue = <<>> /\ pc = "finished" /\ ProgressOf(sse) = events)
    /\ \A i \in 1..Len(sse) :
          sse[i].type \in {"result", "error"} => i = Len(sse)

\* C9 witness: the stream closed after a complete run: init, 34 progress
\* messages in emission order, result
C9_Witness ==
    /\ cpc = "closed"
    /\ Len(sse) = 2 * TOTAL_STEPS + 2
    /\ ProgressOf(sse) = events
    /\ sse[Len(sse)].type = "result"

\* the terminal messages the consumer has yielded
Terminals ==
    LET IsTerminal(x) == x.type \in {"result", "error"}
    IN  SelectSeq(sse, IsTerminal)

\* C10: once the worker has finished, the consumer emits exactly one
\* terminal message before closing the stream: 'result' with the Final Report
\* if the run returned one, 'error' if the run raised, whatever the
\* exception's message text; never both and never neither.
C10_OneTerminalMessage ==
    cpc = "closed" =>
        /\ Len(Terminals) = 1
        /\ result # NoneVal =>
              Terminals[1] = [type |-> "result", report |-> result]
        /\ error # NoneVal => Terminals[1].type = "error"

\* C11: on every exit path of the event stream (normal completion, worker
\* error, an exception inside the consumer loop, a consumer that disconnects
\* at any point, also right after the init message) the temporary directory
\* that holds the upload has been released.
C11_GuaranteedCleanup ==
    cpc \in {"closed", "disconnected"} => tempDir = "released"

\* C12: when a run fails, the client has received, by the time the stream
\* closes, every progress event the worker emitted before the failure, in
\* emission order and ahead of the 'error' message; none is dropped and none
\* belongs to a step after the one that failed.
C12_FailureTimeline ==
    (cpc = "closed" /\ error # NoneVal) =>
        /\ ProgressOf(sse) = events
        /\ \A i \in 1..Len(sse) :
              /\ sse[i].type = "error" => i = Len(sse)
              /\ sse[i].type = "progress" => sse[i].event.step <= step
        /\ \A k \in Steps : k > step => ~Emitted(k, "running")

\* C12 witness: idea generation (step 2) raised; the client received init,
\* running(1), completed(1), running(2) and then the error message
C12_Witness ==
    /\ cpc = "closed" /\ error = Exc("LLM request failed")
    /\ step = 2
    /\ sse = <<[type |-> "init"],
               [type |-> "progress", event |-> [step |-> 1, status |-> "running"]],
               [type |-> "progress", event |-> [step |-> 1, status |-> "completed"]],
               [type |-> "progress", event |-> [step |-> 2, status |-> "running"]],
               [type |-> "error", message |-> "LLM request failed"]>>

\* C13: for every idea index the entry point accepts and every non-empty
\* list of parsed ideas, the orchestrator selects exactly one idea and does
\* not raise: the idea at the index clamped to 0 .. len - 1 (an index past
\* the end selects the last idea).
C13_IdeaIndexClamped ==
    (out[2] # NoneVal /\ out[2].raw_output.ideas > 0) =>
        /\ error # IndexError
        /\ selected # NoneVal
        /\ LET last == Len(selected.parsed) - 1
               i == IF params.idea_index > last THEN last
                    ELSE IF params.idea_index < 0 THEN 0
                    ELSE params.idea_index
           IN  selected.idea = selected.parsed[i + 1]

\* C14: if parsing the idea-generation output yields zero ideas, the run
\* fails with the no-ideas error: no step from 3 to 17 is started (no
\* 'running' event, no LLM call) and no Final Report is produced.
C14_ZeroIdeasFatal ==
    (out[2] # NoneVal /\ out[2].raw_output.ideas = 0) =>
        /\ pc \in {"raised", "idle"}
        /\ error = NoIdeasError
        /\ result = NoneVal
        /\ step = 2
        /\ \A k \in 3..TOTAL_STEPS :
              /\ k \notin llmCalls
              /\ k \notin reporter.start_times
              /\ ~Emitted(k, "running")

\* C14 witness: the idea generation of a run with a progress callback
\* returned text without any idea section; the run raised after the events
\* of steps 1 and 2
C14_Witness ==
    /\ pc = "raised" /\ error = NoIdeasError
    /\ out[2] # NoneVal /\ out[2].raw_output.ideas = 0
    /\ llmCalls = {1, 2}
    /\ params.callback = "list" /\ Len(events) = 4

\* dimension steps whose evaluation, fresh or cached, has a null score
NullScored == {k \in 3..13 : out[k] # NoneVal /\ out[k].score = NoneVal}

\* C18: when the score of a single dimension fails to parse (and nothing
\* else fails), the dimension is kept in the evaluation list with a null
\* score, the run goes on through steps 14-17 to a Final Report, the
\* dimension adds exactly 0 to the weighted overall score and the report
\* shows it with score 0.
C18_DegradedScoring ==
    (faults = 1 /\ Cardinality(NullScored) = 1) =>
        \A k \in NullScored :
            /\ \E i \in 1..Len(evaluations) : evaluations[i] = out[k]
            /\ pc # "raised" /\ error = NoneVal
            /\ pc = "returned" =>
                  /\ Len(result.dimension_scores) = 11
                  /\ \E i \in 1..11 :
                        result.dimension_scores[i]
                          = [dimension |-> DimensionOf(k), score |-> 0]
                  /\ 10 * result.overall_score - ExactSum(evaluations)
                        \in -5..5

\* C18 witness: the response for dimension 7 had no score line; the run
\* returned a report with 11 dimension scores, dimension 7 at 0, and the
\* overall score of the ten other dimensions (8 * 0.92 = 7.36 -> 7.4)
C18_Witness ==
    /\ pc = "returned" /\ faults = 1
    /\ NullScored = {9} /\ 9 \in llmCalls
    /\ Len(evaluations) = 11
    /\ result.dimension_scores[7] = [dimension |-> 7, score |-> 0]
    /\ result.overall_score = 74

\* C19: every Final Report has exactly 11 dimension scores, one for each of
\* the dimensions 1..11, each in [0, 10], and an overall score in [0, 10],
\* whatever LLM failures, parse failures and checkpoint hits occurred.
C19_ElevenDimensionScores ==
    pc = "returned" =>
        /\ Len(result.dimension_scores) = 11
        /\ \A dim \in 1..11 :
              \E i \in 1..Len(result.dimension_scores) :
                 /\ result.dimension_scores[i].dimension = dim
                 /\ result.dimension_scores[i].score \in 0..10
        /\ result.overall_score \in 0..100

\* C20: every Final Report has exactly 3 strengths and exactly 3 concerns,
\* whether a list came from the LLM's bullets, from the fallback for fewer
\* than 3 bullets, from the fallback for an LLM error, or from a checkpoint
\* of an earlier run.
C20_ThreeStrengthsThreeConcerns ==
    pc = "returned" =>
        /\ result.key_strengths.n = 3
        /\ result.key_concerns.n = 3

\* the LLM call of synthesis or consolidation step k failed in this run:
\* the sub-agent invoked the LLM and wrote no checkpoint (14..16), or the
\* rationale is the templated one (17, which saves its report all the same)
SynthesisFailed(k) ==
    /\ k \in llmCalls /\ k \notin ioErrors
    /\ IF k = 17
       THEN /\ out[k] # NoneVal
            /\ out[k].recommendation_rationale.src = "fallback"
       ELSE CountCheckpoints(files, AgentName(k), params.ctx) = 0

\* C21: a failed LLM call in summary, strengths, concerns or rationale is
\* absorbed by a fallback: nothing is raised out of the stage, the stage
\* returns its fallback, the step completes, and a run that is not stopped
\* from outside returns a Final Report that carries the fallback.
C21_SynthesisFailuresAbsorbed ==
    \A k \in 14..17 :
        (SynthesisFailed(k) /\ error # Exc("interrupted")) =>
            /\ error = NoneVal
            /\ pc # "raised"
            /\ k \in reporter.durations
            /\ out[k] # NoneVal
            /\ k = 14 => out[k].text = "Summary generation failed"
            /\ k \in {15, 16} => out[k].src = "error"
            /\ pc \in {"returned", "idle"} =>
                  /\ result # NoneVal
                  /\ k = 14 => result.idea_summary.text = out[14].text
                  /\ k = 15 => result.key_strengths.src = out[15].src
                  /\ k = 16 => result.key_concerns.src = out[16].src
                  /\ k = 17 => result.recommendation_rationale.src = "fallback"

\* C21 witness: the strengths call failed; the run returned a report whose
\* strengths are the fallback built from the top-3 dimension scores
C21_Witness ==
    /\ pc = "returned" /\ faults = 1
    /\ SynthesisFailed(15)
    /\ result.key_strengths = Bullets("error", 3)
    /\ {14, 16, 17} \subseteq llmCalls

\* the LLM invocation of step k (1 or 2) raised in this run
InvocationRaised(k) ==
    k \in llmCalls /\ k \notin ioErrors /\ out[k] = NoneVal

\* C22: if the LLM invocation of extraction (step 1) or idea generation
\* (step 2) fails, the exception leaves score_pdf: the run is failed, the
\* step is not completed, no later step is started and no Final Report is
\* produced.
C22_ExtractionAndIdeasFatal ==
    \A k \in {1, 2} :
        InvocationRaised(k) =>
            /\ pc \in {"raised", "idle"}
            /\ error \in {Exc(m) : m \in ErrorMessages}
            /\ result = NoneVal
            /\ step = k
            /\ k \notin reporter.durations
            /\ ~Emitted(k, "completed")
            /\ \A j \in (k + 1)..TOTAL_STEPS :
                  /\ j \notin llmCalls
                  /\ j \notin reporter.start_times
                  /\ ~Emitted(j, "running")

\* C22 witness: the idea-generation call of a run with a progress callback
\* raised after extraction had completed
C22_Witness ==
    /\ pc = "raised" /\ error = Exc("LLM request failed")
    /\ InvocationRaised(2)
    /\ llmCalls = {1, 2}
    /\ params.callback = "list" /\ Len(events) = 3

\* C23: if save_checkpoint fails because the storage is unavailable, in any
\* of the 17 steps, the error is not absorbed: the run fails with it and
\* produces no Final Report.
C23_StorageErrorsFatal ==
    ioErrors # {} =>
        /\ pc \in {"raised", "idle"}
        /\ error = StorageError
        /\ result = NoneVal

----------------------------------------------------------------------------
(* Concurrent use of the checkpoint directory: save_checkpoint is           *)
(* open(path, 'w') followed by json.dump, and other workers run in between  *)

\* the key the concurrent workers save and load
SharedAgent == AgentName(1)

\* the file a finished json.dump leaves behind
WrittenFile(wr, t) ==
    [name |-> wr.path,
     mtime |-> t,
     content |-> [timestamp |-> wr.at,
                  provider |-> wr.ctx.provider,
                  model |-> wr.ctx.model,
                  pdf_path |-> wr.ctx.pdf_path,
                  sector |-> wr.ctx.sector,
                  data |-> wr.data]]

\* save_checkpoint, first half: get_checkpoint_path and open(path, 'w'),
\* which creates the file or truncates the one that has this name
OpenForWrite(w, agent, ctx) ==
    /\ writers[w] = NoneVal
    /\ Len(log) < MaxSaves
    /\ LET data == [v |-> Len(log) + 1]
           path == GetCheckpointPath(agent, ctx, now)
       IN  /\ files' = {f \in files : f.name # path}
                           \cup {[name |-> path, mtime |-> now,
                                  content |-> Incomplete]}
           /\ writers' = [writers EXCEPT ![w] =
                              [agent |-> agent, ctx |-> ctx, path |-> path,
                               data |-> data, at |-> now, alone |-> TRUE]]
           /\ log' = Append(log, [agent |-> agent, ctx |-> ctx,
                                  data |-> data, at |-> now])
    /\ UNCHANGED <<now, runVars, streamVars>>

\* save_checkpoint, second half: json.dump and close. A dump that overlapped
\* with another worker's dump into the same path leaves either its own
\* document or a mix of the two
CloseWrite(w) ==
    /\ writers[w] # NoneVal
    /\ LET wr == writers[w]
           sharing == {u \in Workers \ {w} :
                          writers[u] # NoneVal /\ writers[u].path = wr.path}
           left == IF wr.alone /\ sharing = {}
                   THEN {WrittenFile(wr, now)}
                   ELSE {WrittenFile(wr, now),
                         [name |-> wr.path, mtime |-> now,
                          content |-> Incomplete]}
       IN  /\ \E file \in left :
                 files' = {f \in files : f.name # wr.path} \cup {file}
           /\ writers' = [u \in Workers |->
                            IF u = w THEN NoneVal
                            ELSE IF u \in sharing
                                 THEN [writers[u] EXCEPT !.alone = FALSE]
                                 ELSE writers[u]]
    /\ UNCHANGED <<now, log, runVars, streamVars>>

\* the save_checkpoint calls for (agent, ctx) that have returned
SavesReturned(agent, ctx) ==
    {i \in 1..Len(log) :
        /\ log[i].agent = agent /\ log[i].ctx = ctx
        /\ \A w \in Workers :
              writers[w] = NoneVal \/ writers[w].data # log[i].data}

\* the files that hold the complete record of the i-th save
RecordsOfSave(fs, i) ==
    {f \in fs : f.content # Incomplete /\ f.content.data = log[i].data}

\* a load_checkpoint that removes the file it has read
LoadLatest_Consuming(agent, ctx) ==
    /\ \E f \in FindLatestCheckpoint(files, agent, ctx) :
          /\ call' = [fn |-> "load_checkpoint", agent |-> agent, ctx |-> ctx,
                      value |-> ReadData(f), again |-> FALSE, complete |-> {}]
          /\ files' = files \ {f}
    /\ UNCHANGED <<now, log, writers, runNo, pc, step, params, reporter,
                   events, llmCalls, had, out, selected, evaluations, result,
                   error, faults, ioErrors, streamVars>>

\* a worker calls load_checkpoint(agent) while others may be saving
LoadLatest(agent, ctx) ==
    /\ \E v \in LoadCheckpoint(files, agent, ctx) :
          call' = [fn |-> "load_checkpoint", agent |-> agent, ctx |-> ctx,
                   value |-> v,
                   again |-> /\ Called("load_checkpoint")
                             /\ call.agent = agent /\ call.ctx = ctx
                             /\ call.value = v,
                   complete |-> {f.content.data :
                                   f \in {g \in MatchingFiles(files, agent, ctx) :
                                             g.content # Incomplete}}]
    /\ UNCHANGED <<storeVars, runNo, pc, step, params, reporter, events,
                   llmCalls, had, out, selected, evaluations, result, error,
                   faults, ioErrors, streamVars>>

NextWriters ==
    \/ Tick
    \/ \E w \in Workers : OpenForWrite(w, SharedAgent, CtxA)
    \/ \E w \in Workers : CloseWrite(w)
    \/ LoadLatest(SharedAgent, CtxA)

SpecWriters == InitStore /\ [][NextWriters]_vars

\* C24: when two workers save the same step for the same run context
\* concurrently, the record of every save that returned is kept, and a
\* load_latest that runs while or after they save returns the complete
\* payload of one of the written records: never 'absent' once a complete
\* record exists.
C24_ConcurrentWritersAndReaders ==
    /\ \A i \in SavesReturned(SharedAgent, CtxA) : RecordsOfSave(files, i) # {}
    /\ Called("load_checkpoint") =>
          /\ call.value # NoneVal =>
                \E i \in 1..Len(log) : log[i].data = call.value
          /\ call.complete # {} => call.value \in call.complete

----------------------------------------------------------------------------
(* Maintenance of the checkpoint directory: load, status, cleanup, clear   *)

\* run contexts of the maintenance calls: CtxA and a sector that extends
\* CtxA's by one "_"-separated word
OpsContexts == {CtxA, CtxB}

\* the step names the maintenance calls are tried on
OpsAgents == {SharedAgent}

\* the step from the previous state is a call of fn
Calls(fn) == call' # call /\ call' # NoneVal /\ call'.fn = fn

\* values of keep_latest
KeepLatest == {0, 1, 2}

\* the file f is a record that was saved under the run context ctx
IsRecordOf(f, ctx) ==
    /\ f.content # Incomplete
    /\ f.content.pdf_path = ctx.pdf_path
    /\ f.content.sector = ctx.sector
    /\ f.content.provider = ctx.provider
    /\ f.content.model = ctx.model

\* the records saved for step name agent under the run context ctx
RecordsFor(fs, agent, ctx) ==
    {f \in fs : /\ IsRecordOf(f, ctx)
                /\ f.name = GetCheckpointPath(agent, ctx, f.content.timestamp)}

\* sorted(glob(pattern), key=mtime, reverse=True)[keep_latest:] for the
\* matching files m: the sets it can be (the sort keeps glob order among
\* files of equal mtime)
OldCheckpoints(m, keep) ==
    {D \in SUBSET m :
        /\ Cardinality(D) = Max(0, Cardinality(m) - keep)
        /\ \A del \in D, kept \in m \ D : del.mtime <= kept.mtime}

\* cleanup_old_checkpoints(keep_latest): the sets of files it can unlink
CleanupDeletes(fs, ctx, keep) ==
    LET touched == UNION {MatchingFiles(fs, agent, ctx) : agent \in AllAgents}
    IN  {D \in SUBSET touched :
            \A agent \in AllAgents :
                D \cap MatchingFiles(fs, agent, ctx)
                    \in OldCheckpoints(MatchingFiles(fs, agent, ctx), keep)}

\* CheckpointManager(ctx).cleanup_old_checkpoints(keep)
CleanupOldCheckpoints(ctx, keep) ==
    /\ \E D \in CleanupDeletes(files, ctx, keep) :
          /\ files' = files \ D
          /\ call' = [fn |-> "cleanup_old_checkpoints", ctx |-> ctx,
                      keep |-> keep, value |-> Num(Cardinality(D))]
    /\ UNCHANGED <<now, log, writers, runNo, pc, step, params, reporter,
                   events, llmCalls, had, out, selected, evaluations, result,
                   error, faults, ioErrors, streamVars>>

\* glob "*_{pdf_name}_{sector}_*.json": pdf_name and sector follow some
\* prefix and something follows them
ClearMatches(ctx, name) ==
    LET key == PdfName(ctx) \o ctx.sector
    IN  \E i \in 1..Len(name) :
            /\ i + Len(key) < Len(name)
            /\ SubSeq(name, i + 1, i + Len(key)) = key

\* CheckpointManager(ctx).clear_all_checkpoints(), as MASScorer.clear_checkpoints
\* calls it
ClearAllCheckpoints(ctx) ==
    /\ LET matching == {f \in files : ClearMatches(ctx, f.name)}
       IN  /\ files' = files \ matching
           /\ call' = [fn |-> "clear_all_checkpoints", ctx |-> ctx,
                       value |-> Num(Cardinality(matching))]
    /\ UNCHANGED <<now, log, writers, runNo, pc, step, params, reporter,
                   events, llmCalls, had, out, selected, evaluations, result,
                   error, faults, ioErrors, streamVars>>

\* the pipeline steps with counts[agent] > 0 among the steps ks
Counted(fs, ctx, ks) ==
    {k \in ks : CountCheckpoints(fs, AgentName(k), ctx) > 0}

\* get_status(): the dict it returns (progress as the number before "/")
StatusOf(fs, ctx) ==
    LET total == Cardinality(UNION {MatchingFiles(fs, AgentName(k), ctx) :
                                       k \in Steps})
    IN  [is_new_analysis |-> total = 0,
         total_checkpoints |-> total,
         agent1_complete |-> Counted(fs, ctx, {1}) # {},
         agent2_complete |-> Counted(fs, ctx, {2}) # {},
         agent3_complete |-> Counted(fs, ctx, 3..13) = 3..13,
         agent3_progress |-> Cardinality(Counted(fs, ctx, 3..13)),
         agent4_complete |-> Counted(fs, ctx, 14..16) = 14..16,
         agent4_progress |-> Cardinality(Counted(fs, ctx, 14..16)),
         agent5_complete |-> Counted(fs, ctx, {17}) # {}]

\* CheckpointManager(ctx).get_status(), as MASScorer.get_checkpoint_status
\* calls it
GetStatus(ctx) ==
    /\ call' = [fn |-> "get_status", ctx |-> ctx,
                value |-> StatusOf(files, ctx)]
    /\ UNCHANGED <<storeVars, runNo, pc, step, params, reporter, events,
                   llmCalls, had, out, selected, evaluations, result, error,
                   faults, ioErrors, streamVars>>

\* the next second of the file-name timestamp begins
NextSecond ==
    /\ (now \div TicksPerSec + 1) * TicksPerSec <= MaxClock
    /\ now' = (now \div TicksPerSec + 1) * TicksPerSec
    /\ UNCHANGED <<files, log, writers, runVars, streamVars>>

NextOps ==
    \/ NextSecond
    \/ \E agent \in OpsAgents, ctx \in OpsContexts : SaveCheckpoint(agent, ctx)
    \/ \E agent \in OpsAgents, ctx \in OpsContexts : LoadLatest(agent, ctx)
    \/ \E ctx \in OpsContexts, keep \in KeepLatest :
          CleanupOldCheckpoints(ctx, keep)
    \/ \E ctx \in OpsContexts : ClearAllCheckpoints(ctx)
    \/ \E ctx \in OpsContexts : GetStatus(ctx)

SpecOps == InitStore /\ [][NextOps]_vars

C26_Prune ==
    [][Calls("cleanup_old_checkpoints") =>
        /\ \A agent \in AllAgents :
              LET was == RecordsFor(files, agent, call'.ctx)
                  is == RecordsFor(files', agent, call'.ctx)
              IN  /\ is \subseteq was
                  /\ Cardinality(is) = Min(call'.keep, Cardinality(was))
                  /\ \A del \in was \ is, kept \in is :
                        del.content.timestamp <= kept.content.timestamp
                  /\ call'.keep >= 1 =>
                        LoadCheckpoint(files', agent, call'.ctx)
                            = LoadCheckpoint(files, agent, call'.ctx)
        /\ \A f \in files : ~IsRecordOf(f, call'.ctx) => f \in files']_vars

\* C27: after clear(ctx), load_latest returns 'absent' for every step of ctx
\* and status reports no completed step; only records of ctx are deleted.
C27_Clear ==
    [][Calls("clear_all_checkpoints") =>
        /\ \A agent \in AllAgents :
              LoadCheckpoint(files', agent, call'.ctx) = {NoneVal}
        /\ StatusOf(files', call'.ctx).is_new_analysis
        /\ \A f \in files : ~IsRecordOf(f, call'.ctx) => f \in files']_vars

\* C28: status reports a step as complete if and only if at least one record
\* exists for that (step, run context), and exactly when a run with that
\* context would take a cache hit for it.
C28_Status ==
    [][Calls("get_status") =>
        LET exist == {k \in Steps :
                         RecordsFor(files, AgentName(k), call'.ctx) # {}}
            hit == {k \in Steps :
                       \E v \in LoadCheckpoint(files, AgentName(k), call'.ctx) :
                           v # NoneVal}
            status == call'.value
        IN  /\ status.agent1_complete <=> 1 \in exist
            /\ status.agent2_complete <=> 2 \in exist
            /\ status.agent3_progress = Cardinality(exist \cap 3..13)
            /\ status.agent4_progress = Cardinality(exist \cap 14..16)
            /\ status.agent5_complete <=> 17 \in exist
            /\ status.agent1_complete <=> 1 \in hit
            /\ status.agent2_complete <=> 2 \in hit
            /\ status.agent3_progress = Cardinality(hit \cap 3..13)
            /\ status.agent4_progress = Cardinality(hit \cap 14..16)
            /\ status.agent5_complete <=> 17 \in hit]_vars

----------------------------------------------------------------------------
(* Runs without a checkpoint manager: use_checkpoints off, and score_text  *)

\* score_text: start_extraction and complete_extraction with no executor in
\* between; extracted_text is an argument of the call
SkipExtraction ==
    /\ pc = "exec" /\ step = 1
    /\ params.entry = "score_text"
    /\ out' = [out EXCEPT ![1] = [raw_output |-> [by |-> 0, step |-> 1],
                                  num_chunks |-> 1]]
    /\ CompleteStep(1) /\ Advance(1)
    /\ UNCHANGED <<storeVars, runNo, params, call, llmCalls, had, selected,
                   evaluations, result, error, faults, ioErrors, holder, sse,
                   cpc, tempDir>>

\* score_pdf is called on a MASScorer built with use_checkpoints=False
StartRunDisabled ==
    /\ cpc = "off"
    /\ BeginRunAs([params EXCEPT !.entry = "score_pdf",
                                 !.ctx.use_checkpoints = FALSE])
    /\ UNCHANGED streamVars

\* score_text is called
StartTextRun ==
    /\ cpc = "off"
    /\ BeginRunAs([params EXCEPT !.entry = "score_text"])
    /\ UNCHANGED streamVars

\* score_pdf calls without a progress callback, at most one LLM failure in
\* the behaviour
ToggleParams ==
    {[ctx |-> ctx, callback |-> "none", num_ideas |-> 3, idea_index |-> 0,
      entry |-> "score_pdf", max_faults |-> 1, disk_errors |-> FALSE] :
        ctx \in RunContexts}

InitToggle ==
    /\ files = {}
    /\ now = 0
    /\ log = <<>>
    /\ writers = [w \in Workers |-> NoneVal]
    /\ params \in ToggleParams
    /\ IdleRun
    /\ NoStream

NextToggle ==
    \/ NextRun
    \/ StartRunDisabled
    \/ StartTextRun
    \/ SkipExtraction

SpecToggle == InitToggle /\ [][NextToggle]_vars

\* the current run was started with the checkpoint toggle off or from
\* pre-extracted text
RunsDisabled ==
    /\ runNo > 0
    /\ params.entry = "score_text" \/ ~params.ctx.use_checkpoints

\* C29: a run with the checkpoint toggle off, and every run started from
\* pre-extracted text, takes no cache hit (every step it has executed invoked
\* the LLM, the skipped extraction of score_text aside) and creates,
\* modifies and deletes no checkpoint record.
C29_CheckpointingDisabled ==
    /\ [](RunsDisabled =>
            \A k \in Steps :
                StepDone(k) =>
                    \/ k \in llmCalls
                    \/ k = 1 /\ params.entry = "score_text")
    /\ [][RunsDisabled' => files' = files]_vars

\* C29 witness: a run with the toggle off has returned its report after
\* invoking the LLM in all 17 steps, while the store holds a record for
\* every step of its run context
C29_Witness ==
    /\ RunsDisabled
    /\ params.entry = "score_pdf"
    /\ pc = "returned"
    /\ result # NoneVal
    /\ llmCalls = Steps
    /\ \A k \in Steps : CountCheckpoints(files, AgentName(k), params.ctx) > 0

----------------------------------------------------------------------------
(* The dimension table and its weights *)

\* DIMENSIONS[i]["name"] for the dimension with id i
DimensionNames ==
    <<"Market Potential",
      "Differentiated Approach and Positioning",
      "Sustainable Competitive Advantage",
      "Differentiating Element",
      "Technical Feasibility",
      "Affordable & Rapid Implementation",
      "AI Enablement for Core Value",
      "Barrier to Entry",
      "Scalable Technology & Operations",
      "Product-Focused Output",
      "Subscription-Based Platform Access">>

\* the items of the dict DIMENSION_WEIGHTS: <<key, weight in hundredths>>
WeightItems ==
    {<<"Market Potential", 12>>,
     <<"Differentiated Approach and Positioning", 10>>,
     <<"Sustainable Competitive Advantage", 10>>,
     <<"Differentiating Element", 8>>,
     <<"Technical Feasibility", 9>>,
     <<"Affordable & Rapid Implementation", 10>>,
     <<"AI Enablement for Core Value", 8>>,
     <<"Barrier to Entry", 11>>,
     <<"Scalable Technology & Operations", 9>>,
     <<"Product-Focused Output", 7>>,
     <<"Subscription-Based Platform Access", 6>>}

\* sum of a sequence of numbers
RECURSIVE SumSeq(_)
SumSeq(q) == IF q = <<>> THEN 0 ELSE Head(q) + SumSeq(Tail(q))

\* C30: each of the 11 dimension names has exactly one weight entry, which
\* is the weight the overall score applies to that dimension, no entry is
\* for another name, and the 11 weights sum to 100 hundredths; so the
\* overall score of eleven equal scores is that score.
C30_WeightsConsistent ==
    /\ Len(DimensionNames) = 11
    /\ Len(DIMENSION_WEIGHTS) = 11
    /\ \A i \in 1..11, j \in 1..11 :
          DimensionNames[i] = DimensionNames[j] => i = j
    /\ \A i \in 1..11 :
          {e \in WeightItems : e[1] = DimensionNames[i]}
              = {<<DimensionNames[i], DIMENSION_WEIGHTS[i]>>}
    /\ {e[1] : e \in WeightItems} = {DimensionNames[i] : i \in 1..11}
    /\ SumSeq(DIMENSION_WEIGHTS) = 100
    /\ \A n \in 0..10 :
          (/\ Called("calculate_overall_score")
           /\ \A i \in 1..11 : call.arg[i].score = Num(n))
              => call.value = 10 * n

\* C30 witness: eleven scores of 10 give the overall score 10.0
C30_Witness ==
    /\ Called("calculate_overall_score")
    /\ \A i \in 1..11 : call.arg[i].score = Num(10)
    /\ call.value = 100

----------------------------------------------------------------------------
(* The result dict of a successful run *)

\* C31: the recommendation carried by the result that score_pdf returns for
\* a successful run is one of the four tier identifiers.
C31_RecommendationIsTier ==
    result # NoneVal =>
        \E r \in 1..Len(Tiers) : result.recommendation = Tiers[r]

\* C32: the idea index recorded in the result is the index of the idea that
\* was evaluated: it is a valid index into the list of generated ideas, also
\* when the index the caller supplied was out of range.
C32_EvaluatedIdeaIndexValid ==
    result # NoneVal =>
        /\ 0 <= result.evaluated_idea_index
        /\ result.evaluated_idea_index < result.generated_ideas_count

----------------------------------------------------------------------------
(* Termination of the event stream: the worker thread and the consumer     *)
(* loop are both scheduled, and every LLM call returns or raises           *)

\* the arguments of the streamed score_pdf call, at most one LLM failure
LiveParams ==
    {[ctx |-> ctx, callback |-> "queue", num_ideas |-> 3, idea_index |-> 0,
      entry |-> "score_pdf", max_faults |-> 1, disk_errors |-> FALSE] :
        ctx \in RunContexts}

InitLive ==
    /\ files = {}
    /\ now = 0
    /\ log = <<>>
    /\ writers = [w \in Workers |-> NoneVal]
    /\ params \in LiveParams
    /\ IdleRun
    /\ queue = <<>>
    /\ holder = [result |-> NoneVal, error |-> NoneVal]
    /\ sse = <<>>
    /\ cpc = "new"
    /\ tempDir = "stored"

\* the steps of the worker thread
WorkerStep ==
    \/ StartStep
    \/ Extraction
    \/ IdeaGeneration
    \/ EvaluateDimension
    \/ SynthesisSummary
    \/ SynthesisStrengths
    \/ SynthesisConcerns
    \/ Consolidation
    \/ WorkerFinally

\* the steps event_generator takes when the event loop resumes it
ConsumerStep ==
    \/ GenInit
    \/ ThreadStart
    \/ ConsumerGet

SpecLive ==
    /\ InitLive
    /\ [][NextStream]_vars
    /\ WF_vars(WorkerStep)
    /\ WF_vars(ConsumerStep)

\* number of "done" entries in the queue
DoneQueued == Cardinality({i \in 1..Len(queue) : queue[i].type = "done"})

\* C33: the worker enqueues "done" exactly once on every exit path of the
\* run, the consumer eventually takes it and finishes the stream, and the
\* consumer does not poll forever after the worker has ended.
C33_StreamTermination ==
    /\ [](DoneQueued <= 1)
    /\ []((pc = "finished" /\ cpc = "poll") => DoneQueued = 1)
    /\ []((cpc = "closed") => (pc = "finished" /\ DoneQueued = 0))
    /\ (pc \in {"returned", "raised"}) ~> (pc = "finished")
    /\ (cpc = "poll") ~> (cpc \in {"closed", "disconnected"})

\* C33 witness: score_pdf raised, the worker enqueued "done", the consumer
\* took it, yielded the error message and finished
C33_Witness ==
    /\ pc = "finished" /\ cpc = "closed"
    /\ TruthyError(holder.error)
    /\ queue = <<>>
    /\ sse # <<>> /\ sse[Len(sse)].type = "error"

----------------------------------------------------------------------------
(* pdf_loader.chunk_text. A text is the sequence of the lengths of its     *)
(* paragraphs (the parts text.split('\n\n') returns); a chunk is the        *)
(* sequence of the paragraph pieces it holds, joined by "\n\n"             *)

\* greatest number of paragraphs of a text
MaxParas == 3

\* greatest length of a paragraph, in characters
MaxParaLen == 10

\* greatest max_tokens
MaxTokens == 2

\* the texts handed to chunk_text
Texts ==
    UNION {[1..n -> 0..MaxParaLen] : n \in 1..MaxParas}

\* len(text)
TextLen(paras) == SumSeq(paras) + 2 * (Len(paras) - 1)

\* estimate_tokens(text)
EstimateTokens(paras) == TextLen(paras) \div 4

\* the whole paragraph i
Whole(paras, i) == [para |-> i, from |-> 0, to |-> paras[i]]

\* len(chunk)
ChunkLen(chunk) ==
    IF chunk = <<>> THEN 0
    ELSE SumSeq([j \in 1..Len(chunk) |-> chunk[j].to - chunk[j].from])
             + 2 * (Len(chunk) - 1)

\* a split into pieces of half the budget
HardSplit_Narrow(paras, i, max_chars) ==
    [j \in 1..((paras[i] + (max_chars \div 2) - 1) \div (max_chars \div 2)) |->
        <<[para |-> i, from |-> (j - 1) * (max_chars \div 2),
           to |-> Min(j * (max_chars \div 2), paras[i])]>>]

\* [para[i:i + max_chars] for i in range(0, len(para), max_chars)], as chunks
HardSplit(paras, i, max_chars) ==
    [j \in 1..((paras[i] + max_chars - 1) \div max_chars) |->
        <<[para |-> i, from |-> (j - 1) * max_chars,
           to |-> Min(j * max_chars, paras[i])]>>]

\* the for loop of chunk_text from paragraph i on, and the final append;
\* "if current_chunk" is true for a non-empty string
RECURSIVE ChunkLoop(_, _, _, _, _)
ChunkLoop(paras, i, chunks, current, max_chars) ==
    IF i > Len(paras)
    THEN IF ChunkLen(current) > 0 THEN Append(chunks, current) ELSE chunks
    ELSE IF ChunkLen(current) + paras[i] + 2 > max_chars
         THEN IF ChunkLen(current) > 0
              THEN ChunkLoop(paras, i + 1, Append(chunks, current),
                             <<Whole(paras, i)>>, max_chars)
              ELSE ChunkLoop(paras, i + 1,
                             chunks \o HardSplit(paras, i, max_chars),
                             current, max_chars)
         ELSE IF ChunkLen(current) > 0
              THEN ChunkLoop(paras, i + 1, chunks,
                             Append(current, Whole(paras, i)), max_chars)
              ELSE ChunkLoop(paras, i + 1, chunks,
                             <<Whole(paras, i)>>, max_chars)

\* chunk_text(text, max_tokens)
ChunkText(paras, max_tokens) ==
    IF TextLen(paras) <= max_tokens * 4
    THEN <<[i \in 1..Len(paras) |-> Whole(paras, i)]>>
    ELSE ChunkLoop(paras, 1, <<>>, <<>>, max_tokens * 4)

\* chunk_text(text, max_tokens), as _extract_chunked calls it
CallChunkText ==
    /\ call = NoneVal
    /\ \E paras \in Texts, max_tokens \in 1..MaxTokens :
          call' = [fn |-> "chunk_text",
                   arg |-> [text |-> paras, max_tokens |-> max_tokens],
                   value |-> ChunkText(paras, max_tokens)]
    /\ UNCHANGED <<storeVars, runNo, pc, step, params, reporter, events,
                   llmCalls, had, out, selected, evaluations, result, error,
                   faults, ioErrors, streamVars>>

NextChunk == CallChunkText

SpecChunk == InitStore /\ [][NextChunk]_vars

\* the pieces of the chunks of the call
PiecesOf(chunks) ==
    UNION {{chunks[c][j] : j \in 1..Len(chunks[c])} : c \in 1..Len(chunks)}

\* C34: chunk_text places a chunk boundary only at a paragraph separator,
\* except inside a paragraph that alone exceeds the budget: every paragraph
\* that is not whole in its chunk is longer than max_tokens * 4.
C34_ParagraphAligned ==
    Called("chunk_text") =>
        \A piece \in PiecesOf(call.value) :
            \/ piece = Whole(call.arg.text, piece.para)
            \/ call.arg.text[piece.para] > call.arg.max_tokens * 4

\* C34 witness: an oversized paragraph was hard-split into three chunks and
\* the two short paragraphs after it share one chunk
C34_Witness ==
    /\ Called("chunk_text")
    /\ call.arg.max_tokens = 1
    /\ call.arg.text = <<9, 1, 1>>
    /\ Len(call.value) = 4
    /\ call.value[4] = <<Whole(call.arg.text, 2), Whole(call.arg.text, 3)>>

\* C35: for every text and every max_tokens >= 1, each chunk that chunk_text
\* returns has at most max_tokens * 4 characters.
C35_ChunkSizeBound ==
    Called("chunk_text") =>
        \A c \in 1..Len(call.value) :
            ChunkLen(call.value[c]) <= call.arg.max_tokens * 4

----------------------------------------------------------------------------
(* The report of a resumed run *)

\* the dimension score list score_pdf would return for the evaluations evals
ScoresOf(evals) ==
    [i \in 1..Len(evals) |->
        [dimension |-> evals[i].dimension_id,
         score |-> ScoreOr0(evals[i].score)]]

\* C36: a run that returns a report, fresh or resumed, returns the overall
\* score and the recommendation computed from the dimension evaluations this
\* run obtained in steps 3-13, and its dimension score list is the list of
\* those evaluations
C36_ReportFromThisRunsEvaluations ==
    (pc = "returned" /\ result # NoneVal) =>
        /\ result.dimension_scores = ScoresOf(evaluations)
        /\ result.overall_score \in CalculateOverallScore(evaluations)
        /\ result.recommendation =
              FormatRecommendation(GetRecommendation(10 * result.overall_score))

----------------------------------------------------------------------------
(* Runs of one run context that evaluate different ideas *)

\* the idea_index argument of the r-th score_pdf call: every call asks for
\* the next idea of the list
IdeaIndexOfRun(r) == r - 1

\* a direct call of score_pdf(idea_index = IdeaIndexOfRun(r)) for the next r
StartIdeaRun ==
    /\ cpc = "off"
    /\ BeginRunAs([params EXCEPT !.idea_index = IdeaIndexOfRun(runNo + 1)])
    /\ UNCHANGED streamVars

\* score_pdf calls of one document, sector and model, checkpointing enabled
IdeaParams ==
    [ctx |-> CtxA, callback |-> "none", num_ideas |-> 3,
     idea_index |-> IdeaIndexOfRun(1), entry |-> "score_pdf",
     max_faults |-> 1, disk_errors |-> FALSE]

InitIdea ==
    /\ files = {}
    /\ now = 0
    /\ log = <<>>
    /\ writers = [w \in Workers |-> NoneVal]
    /\ params = IdeaParams
    /\ IdleRun
    /\ NoStream

NextIdea ==
    \/ Wait
    \/ StartIdeaRun
    \/ StartStep
    \/ Extraction
    \/ IdeaGeneration
    \/ EvaluateDimension
    \/ SynthesisSummary
    \/ SynthesisStrengths
    \/ SynthesisConcerns
    \/ Consolidation
    \/ Interrupt
    \/ EndRun

SpecIdea == InitIdea /\ [][NextIdea]_vars

\* the idea that was passed to the LLM calls of run r: the one run r
\* selected from the parsed ideas
IdeaEvaluatedIn(r) == SelectIdea(selected.parsed, IdeaIndexOfRun(r))

\* C37: the dimension evaluations, the synthesis and the Final Report of a
\* run are those of the idea selected by this run's idea_index, also when
\* an earlier run of the same document, sector and model used another
\* idea_index
C37_EvaluationsOfSelectedIdea ==
    (pc = "returned" /\ result # NoneVal) =>
        /\ \A i \in 1..Len(evaluations) :
              IdeaEvaluatedIn(evaluations[i].raw_output.by) = selected.idea
        /\ IdeaEvaluatedIn(result.idea_summary.by) = selected.idea
        /\ IdeaEvaluatedIn(result.recommendation_rationale.by) = selected.idea

----------------------------------------------------------------------------
(* Runs that resume after a run without parsed ideas *)

\* score_pdf calls of one run context, one of which meets a failing or
\* malformed LLM response
StickyParams ==
    [ctx |-> CtxA, callback |-> "none", num_ideas |-> 3, idea_index |-> 0,
     entry |-> "score_pdf", max_faults |-> 1, disk_errors |-> FALSE]

InitSticky ==
    /\ files = {}
    /\ now = 0
    /\ log = <<>>
    /\ writers = [w \in Workers |-> NoneVal]
    /\ params = StickyParams
    /\ IdleRun
    /\ NoStream

\* MASScorer.clear_checkpoints for the run context, between two runs
ClearCheckpoints ==
    /\ pc = "idle"
    /\ ClearAllCheckpoints(params.ctx)

NextSticky ==
    \/ Wait
    \/ StartRun
    \/ StartStep
    \/ Extraction
    \/ IdeaGeneration
    \/ EvaluateDimension
    \/ SynthesisSummary
    \/ SynthesisStrengths
    \/ SynthesisConcerns
    \/ Consolidation
    \/ EndRun
    \/ ClearCheckpoints

SpecSticky == InitSticky /\ [][NextSticky]_vars

\* the step-2 checkpoint the run context loads holds an output in which no
\* idea parses
ZeroIdeasCached ==
    \A d \in LoadCheckpoint(files, AgentName(2), params.ctx) :
        d # NoneVal /\ d.raw_output.ideas = 0

\* every checkpoint file of the run context is gone after the step
ContextCleared ==
    \A f \in files : ClearMatches(params.ctx, f.name) => f \notin files'

\* C38: the step-2 output is checkpointed before the ideas are parsed, so
\* after a run that failed because zero ideas parsed, every later run of
\* the run context takes the cache hits of steps 1 and 2, issues no LLM
\* call for the idea generation and fails with the same no-ideas error;
\* only clearing the checkpoints of the run context ends this
C38_NoIdeasFailureRepeats ==
    /\ []((pc = "raised" /\ error = NoIdeasError) => ZeroIdeasCached)
    /\ [][(ZeroIdeasCached /\ ~ZeroIdeasCached') => ContextCleared]_vars
    /\ [][(ZeroIdeasCached /\ pc = "exec" /\ step = 1 /\ pc' # pc) =>
            (pc' = "start" /\ step' = 2 /\ llmCalls' = llmCalls)]_vars
    /\ [][(ZeroIdeasCached /\ pc = "exec" /\ step = 2 /\ pc' # pc) =>
            /\ pc' = "raised" /\ error' = NoIdeasError
            /\ llmCalls' = llmCalls /\ files' = files
            /\ result' = NoneVal]_vars

\* C38 witness: the second run of the run context made no LLM call, took
\* the step-2 checkpoint of the first run and raised the no-ideas error
C38_Witness ==
    /\ runNo = 2 /\ pc = "raised" /\ error = NoIdeasError
    /\ llmCalls = {} /\ 2 \in had
    /\ out[2] # NoneVal /\ out[2].raw_output = [by |-> 1, ideas |-> 0]

----------------------------------------------------------------------------
(* Steps whose LLM invocation raised *)

\* the LLM invocation of step k (1..16) raised in the current run: the
\* error left score_pdf (1, 2) or the executor returned None (3..13), the
\* failure text (14) or the error fallback list (15, 16)
LLMRaised(k) ==
    /\ k \in llmCalls /\ k \notin ioErrors
    /\ IF k <= 13 THEN out[k] = NoneVal
       ELSE IF k = 14 THEN out[k].text = "Summary generation failed"
       ELSE out[k].src = "error"

\* the step writes a checkpoint record of step k for the run context
RecordWritten(k) ==
    MatchingFiles(files', AgentName(k), params.ctx) \ files # {}

\* the executor of step k runs in this step of the behaviour
StepExecutes(k) == pc = "exec" /\ step = k /\ pc' # pc

\* C39: for steps 1-16 a checkpoint record is written only after the LLM
\* invocation of that step returned a response; a step whose LLM call
\* raised leaves the store unchanged and has no record afterwards, so the
\* next run of the run context invokes the LLM for that step again, and for
\* no step that has a record
C39_NoCheckpointForFailedStep ==
    /\ [][\A k \in 1..16 :
            RecordWritten(k) =>
                /\ StepExecutes(k)
                /\ k \in llmCalls' \ llmCalls
                /\ ~LLMRaised(k)']_vars
    /\ [][\A k \in 1..16 :
            (StepExecutes(k) /\ LLMRaised(k)') => files' = files]_vars
    /\ [](\A k \in 1..16 :
            LLMRaised(k) =>
                CountCheckpoints(files, AgentName(k), params.ctx) = 0)
    /\ [][\A k \in 1..16 :
            StepExecutes(k) =>
                IF CountCheckpoints(files, AgentName(k), params.ctx) = 0
                THEN k \in llmCalls' \ llmCalls
                ELSE llmCalls' = llmCalls]_vars

\* C39 witness: the LLM call of step 5 raised in the first run, which
\* returned a report with ten dimension scores; the second run invoked the
\* LLM for step 5 only and obtained the eleventh evaluation
C39_Witness ==
    /\ runNo = 2 /\ pc = "returned"
    /\ llmCalls = {5}
    /\ Len(evaluations) = 11
    /\ evaluations[3].raw_output.by = 2
    /\ Len(result.dimension_scores) = 10

----------------------------------------------------------------------------
(* The uploaded document and the worker thread *)

\* the arguments of the streamed score_pdf call
UploadParams ==
    [ctx |-> CtxA, callback |-> "queue", num_ideas |-> 3, idea_index |-> 0,
     entry |-> "score_pdf", max_faults |-> 0, disk_errors |-> FALSE]

\* temp_dir holds the upload, event_generator has not been iterated
InitUpload ==
    /\ files = {}
    /\ now = 0
    /\ log = <<>>
    /\ writers = [w \in Workers |-> NoneVal]
    /\ params = UploadParams
    /\ IdleRun
    /\ queue = <<>>
    /\ holder = [result |-> NoneVal, error |-> NoneVal]
    /\ sse = <<>>
    /\ cpc = "new"
    /\ tempDir = "stored"

\* scoring_thread.start() returns to event_generator: the thread exists,
\* run_scoring has not reached load_pdf yet
ThreadSpawn ==
    /\ cpc = "ready"
    /\ cpc' = "poll"
    /\ UNCHANGED <<storeVars, runVars, queue, holder, sse, tempDir>>

\* the exception of load_pdf for a path that does not exist
LoadError == Exc("document not found")

\* the worker thread runs score_pdf up to load_pdf(temp_path): the document
\* is read if temp_dir still holds it, otherwise load_pdf raises
WorkerLoad ==
    /\ cpc \in {"poll", "disconnected"}
    /\ pc = "idle" /\ runNo = 0
    /\ IF tempDir = "stored"
       THEN BeginRun
       ELSE /\ runNo' = runNo + 1
            /\ pc' = "raised"
            /\ error' = LoadError
            /\ UNCHANGED <<step, params, call, reporter, events, llmCalls,
                           had, out, selected, evaluations, result, faults,
                           ioErrors, storeVars>>
    /\ UNCHANGED streamVars

NextUpload ==
    \/ GenInit
    \/ ThreadSpawn
    \/ WorkerLoad
    \/ StartStep
    \/ Extraction
    \/ IdeaGeneration
    \/ EvaluateDimension
    \/ SynthesisSummary
    \/ SynthesisStrengths
    \/ SynthesisConcerns
    \/ Consolidation
    \/ WorkerFinally
    \/ ConsumerGet
    \/ ConsumerRaise
    \/ Disconnect

SpecUpload == InitUpload /\ [][NextUpload]_vars

\* the worker thread has read the uploaded document
DocumentLoaded == runNo > 0 /\ error # LoadError

\* C40: in a streaming run, for every interleaving of the worker thread and
\* the consumer, the temporary uploaded document is not removed before the
\* worker thread has finished loading it
C40_NoCleanupBeforeUse ==
    tempDir = "released" => DocumentLoaded

====
